---- MODULE Spec2Model ----
(***************************************************************************)
(* Model of the MP3 frame analysis core: the frame header codec, the       *)
(* ID3v2 tag skipper, the streaming frame iterator (Mp3FrameIterator),     *)
(* the frame-counting walk over an iterator, and the processing            *)
(* orchestrator (Mp3ProcessingService.processFile).                        *)
(*                                                                         *)
(* Buffers are sequences of bytes (0..255).  The source uses 0-based       *)
(* positions; position p of a buffer is element p + 1 of the sequence.     *)
(***************************************************************************)
EXTENDS Integers, Sequences, FiniteSets, TLC

(***************************************************************************)
(* Program constants (COMMON_MP3_CONSTANTS, MPEG1_LAYER3_CONSTANTS).       *)
(***************************************************************************)
SYNC_BYTE == 255
SYNC_MASK == 224
ID3V2_MAGIC == <<73, 68, 51>>
ID3V2_HEADER_SIZE == 10
FRAME_HEADER_SIZE == 4
XING_MAGIC == <<88, 105, 110, 103>>
INFO_MAGIC == <<73, 110, 102, 111>>
VBRI_MAGIC == <<86, 66, 82, 73>>
SIDE_INFO_MONO == 17
SIDE_INFO_STEREO == 32
CHANNEL_MODE_MONO == 3
MPEG1_VERSION == 3
LAYER3 == 1
MIN_FRAME_SIZE == 4
FRAME_LENGTH_MULTIPLIER == 144
MPEG1_LAYER3_BITRATES ==
  <<0, 32, 40, 48, 56, 64, 80, 96, 112, 128, 160, 192, 224, 256, 320, 0>>
MPEG1_SAMPLE_RATES == <<44100, 48000, 32000, 0>>
\* Mp3FrameIterator.windowSize
windowSize == 4
\* the factor in processBuffer's maxBufferSize = getMinFrameSize() * 10
MAX_BUFFER_FACTOR == 10
\* isHeaderFrame's minimum number of bytes needed after position
HEADER_FRAME_MIN_BYTES == 40

(***************************************************************************)
(* Byte-level helpers.                                                     *)
(***************************************************************************)
\* buffer[i] of a Node Buffer: the byte, or undefined (here -1) out of range
At(buffer, i) == IF i >= 0 /\ i < Len(buffer) THEN buffer[i + 1] ELSE -1

\* the numeric value JavaScript's bit operators see for buffer[i]:
\* ToInt32(undefined) = 0
Num(buffer, i) == IF i >= 0 /\ i < Len(buffer) THEN buffer[i + 1] ELSE 0

\* x >> n on a non-negative or negative 32-bit integer (arithmetic shift)
ShiftRight(x, n) == x \div (2 ^ n)

\* x & mask, for a mask of the form 2^k - 1
AndLowBits(x, k) == x % (2 ^ k)

\* x & 0xE0 for a byte x
AndSyncMask(x) == ((x \div 32) % 8) * 32

\* a | b on non-negative integers
RECURSIVE BitOr(_, _)
BitOr(a, b) ==
  IF a = 0 THEN b
  ELSE IF b = 0 THEN a
  ELSE (IF (a % 2 = 1) \/ (b % 2 = 1) THEN 1 ELSE 0)
       + 2 * BitOr(a \div 2, b \div 2)

\* buffer.readUInt32BE(position) after JavaScript's ToInt32, which every use
\* applies first (header >> n): the big-endian 32-bit value as a signed integer
readUInt32BE(buffer, position) ==
  LET b0 == buffer[position + 1]
      b1 == buffer[position + 2]
      b2 == buffer[position + 3]
      b3 == buffer[position + 4]
  IN  (IF b0 >= 128 THEN b0 - 256 ELSE b0) * 16777216
      + b1 * 65536 + b2 * 256 + b3

\* buffer.subarray(from, to)
subarray(buffer, from, to) ==
  LET f == IF from > Len(buffer) THEN Len(buffer) ELSE from
      t == IF to > Len(buffer) THEN Len(buffer) ELSE to
  IN  SubSeq(buffer, f + 1, t)

(***************************************************************************)
(* Frame header codec (Mp3Parser, Mpeg1Layer3ParserService).               *)
(***************************************************************************)
isFrameSync(buffer, position) ==
  /\ At(buffer, position) = SYNC_BYTE
  /\ AndSyncMask(Num(buffer, position + 1)) = SYNC_MASK

\* faulty variant of isFormatSpecificFrame: the emphasis field is not looked at
isFormatSpecificFrameAnyEmphasis(buffer, position) ==
  /\ position + FRAME_HEADER_SIZE <= Len(buffer)
  /\ AndLowBits(ShiftRight(Num(buffer, position + 1), 3), 2) = MPEG1_VERSION
  /\ AndLowBits(ShiftRight(Num(buffer, position + 1), 1), 2) = LAYER3
  /\ AndLowBits(ShiftRight(Num(buffer, position + 2), 4), 4) \notin {0, 15}
  /\ AndLowBits(ShiftRight(Num(buffer, position + 2), 2), 2) # 3

\* faulty variant of isFormatSpecificFrame: only version and layer are
\* looked at
isFormatSpecificFrameAnyRate(buffer, position) ==
  /\ position + FRAME_HEADER_SIZE <= Len(buffer)
  /\ AndLowBits(ShiftRight(Num(buffer, position + 1), 3), 2) = MPEG1_VERSION
  /\ AndLowBits(ShiftRight(Num(buffer, position + 1), 1), 2) = LAYER3

isFormatSpecificFrame(buffer, position) ==
  IF position + FRAME_HEADER_SIZE > Len(buffer) THEN FALSE
  ELSE
    LET version == AndLowBits(ShiftRight(Num(buffer, position + 1), 3), 2)
        layer == AndLowBits(ShiftRight(Num(buffer, position + 1), 1), 2)
    IN  IF version # MPEG1_VERSION THEN FALSE
        ELSE IF layer # LAYER3 THEN FALSE
        ELSE
          LET header == readUInt32BE(buffer, position)
              bitrateIndex == AndLowBits(ShiftRight(header, 12), 4)
              sampleRateIndex == AndLowBits(ShiftRight(header, 10), 2)
              emphasis == AndLowBits(Num(buffer, position + 3), 2)
          IN  IF bitrateIndex = 0 \/ bitrateIndex = 15 THEN FALSE
              ELSE IF sampleRateIndex = 3 THEN FALSE
              ELSE IF emphasis = 2 THEN FALSE
              ELSE TRUE

\* faulty variant of calculateFrameLength: the padding bit is left out
calculateFrameLengthNoPadding(headerBytes) ==
  IF Len(headerBytes) < FRAME_HEADER_SIZE THEN 0
  ELSE IF MPEG1_LAYER3_BITRATES[(headerBytes[3] \div 16) + 1] = 0
          \/ MPEG1_SAMPLE_RATES[((headerBytes[3] \div 4) % 4) + 1] = 0
  THEN 0
  ELSE (FRAME_LENGTH_MULTIPLIER
          * MPEG1_LAYER3_BITRATES[(headerBytes[3] \div 16) + 1] * 1000)
       \div MPEG1_SAMPLE_RATES[((headerBytes[3] \div 4) % 4) + 1]

calculateFrameLength(headerBytes) ==
  IF Len(headerBytes) < FRAME_HEADER_SIZE THEN 0
  ELSE
    LET header == readUInt32BE(headerBytes, 0)
        bitrateIndex == AndLowBits(ShiftRight(header, 12), 4)
        sampleRateIndex == AndLowBits(ShiftRight(header, 10), 2)
        padding == AndLowBits(ShiftRight(header, 9), 1)
        bitrate == MPEG1_LAYER3_BITRATES[bitrateIndex + 1]
        sampleRate == MPEG1_SAMPLE_RATES[sampleRateIndex + 1]
    IN  IF bitrate = 0 \/ sampleRate = 0 THEN 0
        ELSE ((FRAME_LENGTH_MULTIPLIER * bitrate * 1000) \div sampleRate)
             + padding

getMinFrameSize == MIN_FRAME_SIZE

\* true when the four bytes at start are the given magic
MagicAt(buffer, start, magic) ==
  /\ At(buffer, start) = magic[1]
  /\ At(buffer, start + 1) = magic[2]
  /\ At(buffer, start + 2) = magic[3]
  /\ At(buffer, start + 3) = magic[4]

\* faulty variant of isHeaderFrame: the marker is looked for at the stereo
\* offset only
isHeaderFrameStereoOnly(buffer, position) ==
  IF position + HEADER_FRAME_MIN_BYTES > Len(buffer) THEN FALSE
  ELSE
    LET channelMode == AndLowBits(ShiftRight(Num(buffer, position + 3), 6), 2)
        sideInfoLength == SIDE_INFO_STEREO
        headerStart == position + FRAME_HEADER_SIZE + sideInfoLength
    IN  IF headerStart + FRAME_HEADER_SIZE > Len(buffer) THEN FALSE
        ELSE IF MagicAt(buffer, headerStart, XING_MAGIC)
                \/ MagicAt(buffer, headerStart, INFO_MAGIC) THEN TRUE
        ELSE IF MagicAt(buffer, headerStart, VBRI_MAGIC) THEN TRUE
        ELSE FALSE

\* isHeaderFrame: a Xing/Info/VBRI marker at the side-information offset
isHeaderFrame(buffer, position) ==
  IF position + HEADER_FRAME_MIN_BYTES > Len(buffer) THEN FALSE
  ELSE
    LET channelMode == AndLowBits(ShiftRight(Num(buffer, position + 3), 6), 2)
        sideInfoLength == IF channelMode = CHANNEL_MODE_MONO
                          THEN SIDE_INFO_MONO
                          ELSE SIDE_INFO_STEREO
        headerStart == position + FRAME_HEADER_SIZE + sideInfoLength
    IN  IF headerStart + FRAME_HEADER_SIZE > Len(buffer) THEN FALSE
        ELSE IF MagicAt(buffer, headerStart, XING_MAGIC)
                \/ MagicAt(buffer, headerStart, INFO_MAGIC) THEN TRUE
        ELSE IF MagicAt(buffer, headerStart, VBRI_MAGIC) THEN TRUE
        ELSE FALSE

(***************************************************************************)
(* Metadata-tag skipper (Mp3Parser.skipId3v2Tag / findId3v2TagEnd).        *)
(***************************************************************************)
findId3v2TagEnd(buffer) ==
  IF Len(buffer) < ID3V2_HEADER_SIZE THEN 0
  ELSE IF /\ At(buffer, 0) = ID3V2_MAGIC[1]
          /\ At(buffer, 1) = ID3V2_MAGIC[2]
          /\ At(buffer, 2) = ID3V2_MAGIC[3]
       THEN
         LET sizeByte6 == buffer[7]
             sizeByte7 == buffer[8]
             sizeByte8 == buffer[9]
             sizeByte9 == buffer[10]
             tagSize == BitOr(BitOr(sizeByte6 * 2097152, sizeByte7 * 16384),
                              BitOr(sizeByte8 * 128, sizeByte9))
             totalSize == ID3V2_HEADER_SIZE + tagSize
         IN  IF totalSize <= Len(buffer) THEN totalSize ELSE 0
       ELSE 0

(***************************************************************************)
(* Results of next(): a frame, null, a rejection, or nothing yet (the      *)
(* promise is still pending).                                              *)
(***************************************************************************)
NoError == "none"
ConcurrencyError == "Multiple concurrent calls to next() are not supported"
NoValidFramesError == "NO_VALID_FRAMES"

Res(kind, position, length, buffer, err) ==
  [kind |-> kind, position |-> position, length |-> length,
   buffer |-> buffer, err |-> err]
Unsettled == Res("pending", 0, 0, <<>>, NoError)
\* no call has been made
NoCall == Res("none", 0, 0, <<>>, NoError)
ResNull == Res("null", 0, 0, <<>>, NoError)
ResError(e) == Res("error", 0, 0, <<>>, e)
\* FrameInfo { position, headerBytes, length, buffer }; headerBytes is
\* subarray(buffer, position, position + 4)
FrameInfo(position, length, buffer) ==
  Res("frame", position, length, buffer, NoError)

(***************************************************************************)
(* Streaming frame iterator (Mp3FrameIterator).  The iterator is a record  *)
(* of its private fields; every handler is an operator from the record     *)
(* (and its argument) to the new record and the settlement it produces.    *)
(***************************************************************************)
NewIterator ==
  [buffer |-> <<>>, currentPosition |-> 0, id3v2Skipped |-> FALSE,
   isEnded |-> FALSE, pendingResolve |-> FALSE, pendingReject |-> FALSE,
   streamError |-> NoError]

\* faulty variant of frameFits: only the header has to be buffered
frameFitsHeaderOnly(buffer, pos, frameLength) ==
  ~(pos + FRAME_HEADER_SIZE > Len(buffer))

\* findNextFrame's test that the whole frame is buffered
frameFits(buffer, pos, frameLength) ==
  ~(pos + frameLength > Len(buffer))

\* faulty variant of advancePastFrame: the cursor moves past the header only
advanceHeaderOnly(pos, frameLength) == pos + FRAME_HEADER_SIZE

\* findNextFrame's jump to the next expected frame position
advancePastFrame(pos, frameLength) == pos + frameLength

\* the while loop of findNextFrame from cursor position pos: the final
\* cursor and the frame returned (kind "frame") or null (kind "null")
RECURSIVE ScanLoop(_, _)
ScanLoop(buffer, pos) ==
  IF ~(pos < Len(buffer) - getMinFrameSize)
  THEN [pos |-> pos, frame |-> ResNull]
  ELSE IF ~isFrameSync(buffer, pos) THEN ScanLoop(buffer, pos + 1)
  ELSE IF ~isFormatSpecificFrame(buffer, pos) THEN ScanLoop(buffer, pos + 1)
  ELSE
    LET headerBytes == subarray(buffer, pos, pos + FRAME_HEADER_SIZE)
        frameLength == calculateFrameLength(headerBytes)
    IN  IF frameLength <= 0 THEN ScanLoop(buffer, pos + 1)
        ELSE IF ~frameFits(buffer, pos, frameLength)
        THEN [pos |-> pos, frame |-> ResNull]
        ELSE [pos |-> advancePastFrame(pos, frameLength),
              frame |-> FrameInfo(pos, frameLength, buffer)]

\* findNextFrame leaves the cursor where the loop stopped
scanned(this, r) ==
  [it |-> [this EXCEPT !.currentPosition = r.pos], frame |-> r.frame]

findNextFrame(this) ==
  scanned(this, ScanLoop(this.buffer, this.currentPosition))

\* the ID3v2 step of processBuffer
SkipTagStep(this) ==
  IF ~this.id3v2Skipped /\ Len(this.buffer) >= ID3V2_HEADER_SIZE
  THEN LET tagEndPosition == findId3v2TagEnd(this.buffer)
       IN  IF tagEndPosition > 0
           THEN [this EXCEPT !.id3v2Skipped = TRUE,
                             !.buffer = subarray(this.buffer, tagEndPosition,
                                                 Len(this.buffer)),
                             !.currentPosition = 0]
           ELSE [this EXCEPT !.id3v2Skipped = TRUE]
  ELSE this

\* faulty variant of TrimStep: the window is cut after the cursor, not
\* before it
TrimStepTooFar(this) ==
  LET maxBufferSize == getMinFrameSize * MAX_BUFFER_FACTOR
  IN  IF Len(this.buffer) > maxBufferSize /\ this.currentPosition > windowSize
      THEN LET trimAmount == this.currentPosition + windowSize
           IN  [this EXCEPT !.buffer = subarray(this.buffer, trimAmount,
                                                Len(this.buffer)),
                            !.currentPosition = 0]
      ELSE this

\* the trimming step of processBuffer
TrimStep(this) ==
  LET maxBufferSize == getMinFrameSize * MAX_BUFFER_FACTOR
  IN  IF Len(this.buffer) > maxBufferSize /\ this.currentPosition > windowSize
      THEN LET trimAmount == this.currentPosition - windowSize
           IN  [this EXCEPT !.buffer = subarray(this.buffer, trimAmount,
                                                Len(this.buffer)),
                            !.currentPosition = windowSize]
      ELSE this

ClearPending(this) ==
  [this EXCEPT !.pendingResolve = FALSE, !.pendingReject = FALSE]

\* faulty variant of resolvePending: the slot is not emptied when the promise
\* is resolved
resolvePendingKeepsSlot(f) ==
  IF f.frame.kind = "frame"
  THEN [it |-> f.it, res |-> f.frame]
  ELSE IF f.it.isEnded
  THEN [it |-> f.it, res |-> ResNull]
  ELSE [it |-> TrimStep(f.it), res |-> Unsettled]

\* processBuffer with a pending promise, f being what findNextFrame gave:
\* resolve with the frame, or with null once ended, or keep waiting and trim
resolvePending(f) ==
  IF f.frame.kind = "frame"
  THEN [it |-> ClearPending(f.it), res |-> f.frame]
  ELSE IF f.it.isEnded
  THEN [it |-> ClearPending(f.it), res |-> ResNull]
  ELSE [it |-> TrimStep(f.it), res |-> Unsettled]

\* processBuffer after its ID3v2 step
pendingStep(t1) ==
  IF t1.pendingResolve
  THEN resolvePending(findNextFrame(t1))
  ELSE [it |-> TrimStep(t1), res |-> Unsettled]

\* processBuffer: the new iterator and what the pending promise, if any, is
\* settled with (Unsettled when nothing is settled)
processBuffer(this) == pendingStep(SkipTagStep(this))

onData(this, chunk) ==
  processBuffer([this EXCEPT !.buffer = this.buffer \o chunk])

\* onEnd with the promise still pending after processBuffer, f being what
\* the last findNextFrame gave
resolveAtEnd(f) ==
  IF f.frame.kind = "frame"
  THEN [it |-> ClearPending(f.it), res |-> f.frame]
  ELSE [it |-> ClearPending(f.it), res |-> ResNull]

\* onEnd after its processBuffer call returned p
afterLastProcess(p) ==
  IF p.it.pendingResolve THEN resolveAtEnd(findNextFrame(p.it)) ELSE p

\* faulty variant of onEnd: isEnded is not set
onEndNoFlag(this) == afterLastProcess(processBuffer(this))

\* onEnd: set isEnded, process what is buffered, settle a pending promise
onEnd(this) ==
  afterLastProcess(processBuffer([this EXCEPT !.isEnded = TRUE]))

\* faulty variant of onError: the error is not recorded
onErrorForgetful(this, error) ==
  IF this.pendingReject
  THEN [it |-> ClearPending(this), res |-> ResError(error)]
  ELSE [it |-> this, res |-> Unsettled]

\* faulty variant of onError: the error is recorded but a pending promise is
\* left waiting
onErrorSilent(this, error) ==
  [it |-> [this EXCEPT !.streamError = error], res |-> Unsettled]

\* onError: record the error and reject a pending promise with it
onError(this, error) ==
  LET t1 == [this EXCEPT !.streamError = error]
  IN  IF t1.pendingReject
      THEN [it |-> ClearPending(t1), res |-> ResError(error)]
      ELSE [it |-> t1, res |-> Unsettled]

\* faulty variant of waitForData: the pending slot is taken unconditionally
waitForDataOverwrite(this) ==
  processBuffer([this EXCEPT !.pendingResolve = TRUE, !.pendingReject = TRUE])

\* the promise executor of next(): occupy the pending slot, or reject when
\* it is occupied
waitForData(this) ==
  IF this.isEnded THEN [it |-> this, res |-> ResNull]
  ELSE IF this.pendingResolve
  THEN [it |-> this, res |-> ResError(ConcurrencyError)]
  ELSE processBuffer([this EXCEPT !.pendingResolve = TRUE,
                                  !.pendingReject = TRUE])

\* next() after its findNextFrame call gave f: the frame at once, null once
\* ended, otherwise the promise
immediate(f) ==
  IF f.frame.kind = "frame" THEN [it |-> f.it, res |-> f.frame]
  ELSE IF f.it.isEnded THEN [it |-> f.it, res |-> ResNull]
  ELSE waitForData(f.it)

\* next(): the new iterator and the settlement of the returned promise
\* (Unsettled when the call is left waiting in the pending slot)
next(this) ==
  IF this.streamError # NoError
  THEN [it |-> this, res |-> ResError(this.streamError)]
  ELSE immediate(findNextFrame(this))

\* faulty variant of hasNext: a stream error is not looked at
hasNextDespiteError(this) ==
  IF this.isEnded
  THEN this.currentPosition < Len(this.buffer) - getMinFrameSize
  ELSE TRUE

hasNext(this) ==
  IF this.streamError # NoError THEN FALSE
  ELSE IF this.isEnded
  THEN this.currentPosition < Len(this.buffer) - getMinFrameSize
  ELSE TRUE

(***************************************************************************)
(* Frame counting over an iterator (Mp3Parser.countFrames): the loop       *)
(*   while ((frame = await iterator.next()) !== null)                      *)
(*     if (!isHeaderFrame(frame.buffer, frame.position)) frameCount++      *)
(* that fails with the no-valid-frames kind when the final count is zero.  *)
(***************************************************************************)
NoOutcome == [kind |-> "none", count |-> 0, err |-> NoError]
Count(n) == [kind |-> "count", count |-> n, err |-> NoError]
Failure(e) == [kind |-> "error", count |-> 0, err |-> e]

\* one iteration of the loop on a returned frame
countFramesStep(frameCount, frame) ==
  IF ~isHeaderFrame(frame.buffer, frame.position)
  THEN frameCount + 1
  ELSE frameCount

\* the end of the loop
countFramesFinish(frameCount) ==
  IF frameCount = 0 THEN Failure(NoValidFramesError) ELSE Count(frameCount)

(***************************************************************************)
(* Strict header parse (Mpeg1Layer3ParserService.parseFrameHeader): the    *)
(* frame length, or the corrupted-header error thrown.                     *)
(***************************************************************************)
CorruptedFrameHeaderError == "CORRUPTED_FRAME_HEADER"
Returned(value) == [thrown |-> NoError, value |-> value]
Thrown(e) == [thrown |-> e, value |-> 0]

\* faulty variant of lengthOrThrow: the zero sentinel is returned
lengthOrZero(frameLength) == Returned(frameLength)

\* parseFrameHeader once calculateFrameLength has given frameLength
lengthOrThrow(frameLength) ==
  IF frameLength = 0 THEN Thrown(CorruptedFrameHeaderError)
  ELSE Returned(frameLength)

parseFrameHeader(buffer, position) ==
  IF position + FRAME_HEADER_SIZE > Len(buffer)
  THEN Thrown(CorruptedFrameHeaderError)
  ELSE lengthOrThrow(calculateFrameLength(
         subarray(buffer, position, position + FRAME_HEADER_SIZE)))

(***************************************************************************)
(* Buffer parser (Mp3Parser.validate, Mp3Parser.countFrames).  Each loop   *)
(* is a record of its locals (position, the counter, the outcome once the  *)
(* method has returned or thrown) and an operator for one iteration.  The  *)
(* failures are BadRequestExceptions told apart by their message; the      *)
(* model names them by the kind the message states.                        *)
(***************************************************************************)
EmptyBufferError == "EMPTY_BUFFER"
FileTooSmallError == "FILE_TOO_SMALL"
TruncatedFrameError == "TRUNCATED_FRAME"
FrameAlignmentError == "FRAME_ALIGNMENT_ERROR"
CorruptedFrameError == "CORRUPTED_FRAME"
\* validate's maxFramesToCheck and alignmentTolerance
maxFramesToCheck == 10
alignmentTolerance == 4

\* validate returned
Valid == [kind |-> "valid", count |-> 0, err |-> NoError]

Loop(position, n, out) == [position |-> position, n |-> n, outcome |-> out]
NotEntered == Loop(0, 0, NoOutcome)
Running(s) == s.outcome = NoOutcome
Throw(s, e) == [s EXCEPT !.outcome = Failure(e)]

\* validate before its loop: the size checks and the tag skip
validateEnter(buffer) ==
  IF Len(buffer) = 0 THEN Throw(NotEntered, EmptyBufferError)
  ELSE IF Len(buffer) < getMinFrameSize
  THEN Throw(NotEntered, FileTooSmallError)
  ELSE Loop(findId3v2TagEnd(buffer), 0, NoOutcome)

\* the alignment check's search for a sync pattern at nextPosition + 0..4
foundNextFrame(buffer, nextPosition) ==
  \E offset \in 0..alignmentTolerance :
    /\ nextPosition + offset < Len(buffer)
    /\ isFrameSync(buffer, nextPosition + offset)

\* faulty variant of validateAccept: the first frame is checked like the rest
validateAcceptFirstToo(buffer, s, frameLength) ==
  IF frameLength <= 0 THEN Throw(s, CorruptedFrameHeaderError)
  ELSE IF s.position + frameLength > Len(buffer)
  THEN Throw(s, TruncatedFrameError)
  ELSE IF /\ s.position + frameLength < Len(buffer)
          /\ ~isHeaderFrame(buffer, s.position)
          /\ ~foundNextFrame(buffer, s.position + frameLength)
  THEN Throw(s, FrameAlignmentError)
  ELSE Loop(s.position + frameLength, s.n + 1, NoOutcome)

\* validate on a frame whose header parsed to frameLength
validateAccept(buffer, s, frameLength) ==
  IF frameLength <= 0 THEN Throw(s, CorruptedFrameHeaderError)
  ELSE IF s.position + frameLength > Len(buffer)
  THEN Throw(s, TruncatedFrameError)
  ELSE IF /\ s.position + frameLength < Len(buffer)
          /\ ~isHeaderFrame(buffer, s.position)
          /\ ~foundNextFrame(buffer, s.position + frameLength)
          /\ s.n > 0
  THEN Throw(s, FrameAlignmentError)
  ELSE Loop(s.position + frameLength, s.n + 1, NoOutcome)

\* faulty variant of validateFrame: a frame running past the end is skipped
validateFrameLenient(buffer, s, parsed) ==
  IF parsed.thrown # NoError THEN Throw(s, CorruptedFrameError)
  ELSE IF s.position + parsed.value > Len(buffer)
  THEN Loop(s.position + 1, s.n, NoOutcome)
  ELSE validateAccept(buffer, s, parsed.value)

\* validate's try block, parsed being what parseFrameHeader gave: an error
\* that is no BadRequestException is rethrown as the corrupted-frame kind
validateFrame(buffer, s, parsed) ==
  IF parsed.thrown # NoError THEN Throw(s, CorruptedFrameError)
  ELSE validateAccept(buffer, s, parsed.value)

\* faulty variant of validateExit: validate returns though no frame was found
validateExitAny(s) == [s EXCEPT !.outcome = Valid]

\* validate after its loop
validateExit(s) ==
  IF s.n = 0 THEN Throw(s, NoValidFramesError)
  ELSE [s EXCEPT !.outcome = Valid]

\* faulty variant of validateStep: the loop has no cap on the frames checked
validateStepUncapped(buffer, s) ==
  IF ~(s.position < Len(buffer) - getMinFrameSize)
  THEN validateExit(s)
  ELSE IF isFrameSync(buffer, s.position)
          /\ isFormatSpecificFrame(buffer, s.position)
  THEN validateFrame(buffer, s, parseFrameHeader(buffer, s.position))
  ELSE Loop(s.position + 1, s.n, NoOutcome)

\* one evaluation of validate's loop condition and, when it holds, one
\* iteration of the loop
validateStep(buffer, s) ==
  IF ~(s.position < Len(buffer) - getMinFrameSize /\ s.n < maxFramesToCheck)
  THEN validateExit(s)
  ELSE IF isFrameSync(buffer, s.position)
          /\ isFormatSpecificFrame(buffer, s.position)
  THEN validateFrame(buffer, s, parseFrameHeader(buffer, s.position))
  ELSE Loop(s.position + 1, s.n, NoOutcome)

\* validate run to its return or throw
RECURSIVE validateFrom(_, _)
validateFrom(buffer, s) ==
  IF Running(s) THEN validateFrom(buffer, validateStep(buffer, s)) ELSE s
validate(buffer) == validateFrom(buffer, validateEnter(buffer)).outcome

\* countFrames before its loop
countFramesEnter(buffer) ==
  IF Len(buffer) = 0 THEN Throw(NotEntered, EmptyBufferError)
  ELSE Loop(findId3v2TagEnd(buffer), 0, NoOutcome)

\* faulty variant of countFrame: summary frames are counted too
countFrameAll(buffer, s, parsed) ==
  IF /\ parsed.thrown = NoError
     /\ parsed.value > 0
     /\ s.position + parsed.value <= Len(buffer)
  THEN Loop(s.position + parsed.value, s.n + 1, NoOutcome)
  ELSE Loop(s.position + 1, s.n, NoOutcome)

\* countFrames' try block: a frame that fits is stepped over, and counted
\* unless it is a summary frame; anything else moves on by one byte
countFrame(buffer, s, parsed) ==
  IF /\ parsed.thrown = NoError
     /\ parsed.value > 0
     /\ s.position + parsed.value <= Len(buffer)
  THEN Loop(s.position + parsed.value,
            IF ~isHeaderFrame(buffer, s.position) THEN s.n + 1 ELSE s.n,
            NoOutcome)
  ELSE Loop(s.position + 1, s.n, NoOutcome)

\* faulty variant of countFramesExit: a count of zero is returned
countFramesExitZero(s) == [s EXCEPT !.outcome = Count(s.n)]

\* countFrames after its loop
countFramesExit(s) ==
  IF s.n = 0 THEN Throw(s, NoValidFramesError)
  ELSE [s EXCEPT !.outcome = Count(s.n)]

\* one evaluation of countFrames' loop condition and, when it holds, one
\* iteration of the loop
countFramesLoop(buffer, s) ==
  IF ~(s.position < Len(buffer) - getMinFrameSize)
  THEN countFramesExit(s)
  ELSE IF isFrameSync(buffer, s.position)
          /\ isFormatSpecificFrame(buffer, s.position)
  THEN countFrame(buffer, s, parseFrameHeader(buffer, s.position))
  ELSE Loop(s.position + 1, s.n, NoOutcome)

(***************************************************************************)
(* Input streams: a stream is the concatenation of at most MaxSegs         *)
(* segments drawn from a catalogue of frames, tags and junk.               *)
(***************************************************************************)
MaxSegs == 2
\* the sizes of the chunks the source may deliver (besides "all the rest"):
\* a small chunk, and a big one of ChunkFactor small ones
ChunkSmall == 16
ChunkFactor == 3
ChunkBig == ChunkFactor * ChunkSmall
\* next() calls made on the iterator after countFrames has finished
MaxExtraCalls == 1

Zeros(n) == [i \in 1..n |-> 0]

\* header FF FB 14 00: MPEG-1 Layer 3, 32 kbps, 48 kHz, no padding: 96 bytes
\* header FF FB 16 00: the same with the padding bit: 97 bytes
\* header FF FB 14 C0: 96 bytes, mono
SegBytes(k) ==
  CASE k = "F96" -> <<255, 251, 20, 0>> \o Zeros(92)
    [] k = "F97" -> <<255, 251, 22, 0>> \o Zeros(93)
    [] k = "FSYNC" -> <<255, 251, 20, 0, 255, 251, 20, 0>> \o Zeros(88)
    [] k = "XING" -> <<255, 251, 20, 0>> \o Zeros(32) \o XING_MAGIC
                     \o <<255, 251, 20, 0>> \o Zeros(52)
    [] k = "INFO" -> <<255, 251, 20, 192>> \o Zeros(17) \o INFO_MAGIC \o Zeros(71)
    [] k = "TAG" -> <<73, 68, 51, 3, 0, 0, 0, 0, 0, 10>> \o Zeros(10)
    [] k = "TAGF" -> <<73, 68, 51, 3, 0, 0, 0, 0, 0, 96>>
                     \o <<255, 251, 20, 0>> \o Zeros(92)
    [] k = "JUNK" -> <<0, 255, 251, 0, 0, 255, 243, 20, 0>>
    [] k = "TRUNC" -> <<255, 251, 20, 0>> \o Zeros(20)

AudioKinds == {"F96", "F97", "FSYNC"}
SummaryKinds == {"XING", "INFO"}
TagKinds == {"TAG", "TAGF"}
SegKinds == AudioKinds \cup SummaryKinds \cup TagKinds \cup {"JUNK", "TRUNC"}

RECURSIVE StreamBytes(_)
StreamBytes(ks) ==
  IF ks = <<>> THEN <<>> ELSE SegBytes(Head(ks)) \o StreamBytes(Tail(ks))

\* a tag, if any, opens the stream and a truncated frame, if any, closes it
WellPlaced(ks) ==
  \A i \in 1..Len(ks) :
    /\ ks[i] \in TagKinds => i = 1
    /\ ks[i] = "TRUNC" => i = Len(ks)

SegSeqs ==
  {ks \in UNION {[1..n -> SegKinds] : n \in 0..MaxSegs} : WellPlaced(ks)}
StreamErrors == {"ECONNRESET", "ETIMEDOUT"}

(***************************************************************************)
(* Format descriptors and failures seen by the orchestrator.               *)
(***************************************************************************)
Versions == {"MPEG-1", "MPEG-2", "MPEG-2.5", "Unknown"}
Layers == {"Layer 1", "Layer 2", "Layer 3", "Unknown"}

\* Mp3TypeInfo { version, layer, description }
Mp3TypeInfo(version, layer, description) ==
  [version |-> version, layer |-> layer, description |-> description]
NoType == Mp3TypeInfo("", "", <<>>)

\* what the detector resolves with: a decoded header, or Unknown/Unknown
\* with a diagnostic label
\* descriptions are sequences of words: `${versionName} ${layerName}`
TypeInfos ==
  {Mp3TypeInfo(v, l, <<v, l>>) : v \in Versions, l \in Layers}
  \cup {Mp3TypeInfo("Unknown", "Unknown", <<d>>) :
          d \in {"Invalid file: empty stream",
                 "Invalid file: insufficient data",
                 "No valid MP3 frame found"}}

\* failures: a name, a code and (for the unsupported format) the descriptor
Err(name, code, typeInfo) ==
  [name |-> name, code |-> code, typeInfo |-> typeInfo]
PFNoError == Err("", "", NoType)
UnsupportedFormatError(typeInfo) ==
  Err("UnsupportedFormatError", "UNSUPPORTED_FORMAT", typeInfo)
Mp3AnalysisError(code) == Err("Mp3AnalysisError", code, NoType)
StreamFailure(e) == Err("Error", e, NoType)
ReadError == Err("ReadError", "READ_ERROR", NoType)
ParserAlreadyRegisteredError ==
  Err("ParserAlreadyRegisteredError", "PARSER_ALREADY_REGISTERED", NoType)

(***************************************************************************)
(* Parser registry (ParserRegistryService): a map from "version:layer"     *)
(* keys to parsers.                                                        *)
(***************************************************************************)
NoParser == "null"

\* faulty variant of getKey: the layer is left out of the key
getKeyVersionOnly(version, layer) == version

\* `${version}:${layer}`
getKey(version, layer) == version \o ":" \o layer

getParser(parsers, typeInfo) ==
  LET key == getKey(typeInfo.version, typeInfo.layer)
  IN  IF key \in DOMAIN parsers THEN parsers[key] ELSE NoParser

\* faulty variant of registerParser: a registered key is overwritten
registerParserOverwrite(parsers, version, layer, parser) ==
  [parsers |-> [k \in DOMAIN parsers \cup {getKey(version, layer)} |->
                  IF k = getKey(version, layer) THEN parser ELSE parsers[k]],
   thrown |-> PFNoError]

\* registerParser: the new map and what the call threw
registerParser(parsers, version, layer, parser) ==
  LET key == getKey(version, layer)
  IN  IF key \in DOMAIN parsers
      THEN [parsers |-> parsers, thrown |-> ParserAlreadyRegisteredError]
      ELSE [parsers |-> [k \in DOMAIN parsers \cup {key} |->
                           IF k = key THEN parser ELSE parsers[k]],
            thrown |-> PFNoError]

(***************************************************************************)
(* Processing orchestrator (Mp3ProcessingService.processFile).  pf.pc      *)
(* names the call processFile is awaiting; pf.calls lists the calls it has *)
(* made.  A settlement is what the awaited promise resolved or rejected    *)
(* with.                                                                   *)
(***************************************************************************)
NotSettled == [kind |-> "pending", value |-> 0, typeInfo |-> NoType,
               err |-> PFNoError]
Resolved(value, typeInfo) ==
  [kind |-> "ok", value |-> value, typeInfo |-> typeInfo, err |-> PFNoError]
Rejected(e) == [kind |-> "error", value |-> 0, typeInfo |-> NoType, err |-> e]

NoResult == [frameCount |-> 0]
ProcessingResult(n) == [frameCount |-> n]

\* processFile is entered: it calls getStreamTee and awaits it
processFileCall ==
  [pc |-> "getStreamTee", typeInfo |-> NoType, parser |-> NoParser,
   calls |-> <<"getStreamTee">>, result |-> NoResult, error |-> PFNoError]
NotCalled ==
  [pc |-> "none", typeInfo |-> NoType, parser |-> NoParser,
   calls |-> <<>>, result |-> NoResult, error |-> PFNoError]

\* processFile rejects with the failure e
processFileThrow(this, e) == [this EXCEPT !.pc = "failed", !.error = e]

\* faulty variant of afterDetect: validate is called whatever the lookup gave
afterDetectNoNullCheck(this, parsers, typeInfo) ==
  [this EXCEPT !.typeInfo = typeInfo,
               !.parser = getParser(parsers, typeInfo),
               !.pc = "validate",
               !.calls = this.calls \o <<"getParser", "validate">>]

\* after detection: look the parser up, reject when there is none,
\* otherwise call validate
afterDetect(this, parsers, typeInfo) ==
  LET parser == getParser(parsers, typeInfo)
      t1 == [this EXCEPT !.typeInfo = typeInfo, !.parser = parser,
                         !.calls = Append(this.calls, "getParser")]
  IN  IF parser = NoParser
      THEN processFileThrow(t1, UnsupportedFormatError(typeInfo))
      ELSE [t1 EXCEPT !.pc = "validate",
                      !.calls = Append(t1.calls, "validate")]

\* faulty variant of onRejected: the failure is replaced by a generic one
onRejectedWrapped(this, e) ==
  processFileThrow(this, Mp3AnalysisError("CORRUPTED_FRAME"))

\* a rejected await: processFile has no try/catch, the rejection is its own
onRejected(this, e) == processFileThrow(this, e)

\* processFile resumes after the promise it awaits has settled
processFileResume(this, parsers, settled) ==
  IF settled.kind = "error" THEN onRejected(this, settled.err)
  ELSE CASE this.pc = "getStreamTee" ->
              [this EXCEPT !.pc = "detect",
                           !.calls = Append(this.calls, "detect")]
         [] this.pc = "detect" -> afterDetect(this, parsers, settled.typeInfo)
         [] this.pc = "validate" ->
              [this EXCEPT !.pc = "countFrames",
                           !.calls = Append(this.calls, "countFrames")]
         [] this.pc = "countFrames" ->
              [this EXCEPT !.pc = "returned",
                           !.result = ProcessingResult(settled.value)]

(***************************************************************************)
(* State: one source stream, one iterator over it, one countFrames walk.   *)
(***************************************************************************)
(***************************************************************************)
(* Format detector (Mp3TypeDetector).  detectTypeFromStream is a record of *)
(* its closure (chunks, totalBytes, minBytes, whether its listeners are    *)
(* still attached, its promise) beside the stream it listens to.           *)
(***************************************************************************)
VERSION_MAP == <<"MPEG-2.5", "Unknown", "MPEG-2", "MPEG-1">>
LAYER_MAP == <<"Unknown", "Layer 3", "Layer 2", "Layer 1">>
getVersionName(version) == VERSION_MAP[version + 1]
getLayerName(layer) == LAYER_MAP[layer + 1]

Unknown(description) == Mp3TypeInfo("Unknown", "Unknown", <<description>>)

\* the descriptor decoded from the byte after the sync byte
decodedType(versionName, layerName) ==
  Mp3TypeInfo(versionName, layerName, <<versionName, layerName>>)
typeAt(buffer, position) ==
  decodedType(
    getVersionName(AndLowBits(ShiftRight(Num(buffer, position + 1), 3), 2)),
    getLayerName(AndLowBits(ShiftRight(Num(buffer, position + 1), 1), 2)))

\* the positions the search loop stops at, from position on
syncHits(buffer, position) ==
  {p \in position..(Len(buffer) - FRAME_HEADER_SIZE - 1) :
     /\ At(buffer, p) = SYNC_BYTE
     /\ AndSyncMask(Num(buffer, p + 1)) = SYNC_MASK}
Lowest(S) == CHOOSE p \in S : \A q \in S : p <= q

firstSync(buffer, hits) ==
  IF hits = {} THEN Unknown("No valid MP3 frame found")
  ELSE typeAt(buffer, Lowest(hits))

detectTypeFromBuffer(buffer) ==
  IF Len(buffer) < 4 THEN Unknown("Invalid file: insufficient data")
  ELSE firstSync(buffer, syncHits(buffer, findId3v2TagEnd(buffer)))

\* detectTypeFromStream(stream, minBytes) has attached its listeners
NewDetector(bytes, minBytes) ==
  [rest |-> bytes, srcState |-> "open", chunks |-> <<>>, totalBytes |-> 0,
   minBytes |-> minBytes, listening |-> TRUE, promise |-> NotSettled]
NoDetector ==
  [rest |-> <<>>, srcState |-> "off", chunks |-> <<>>, totalBytes |-> 0,
   minBytes |-> 0, listening |-> FALSE, promise |-> NotSettled]

\* cleanup() followed by resolve or reject
detSettle(d, settlement) ==
  [d EXCEPT !.listening = FALSE, !.promise = settlement]

detPush(d, chunk) ==
  [d EXCEPT !.chunks = @ \o chunk, !.totalBytes = @ + Len(chunk)]
detEnough(d) ==
  IF d.totalBytes >= d.minBytes
  THEN detSettle(d, Resolved(0, detectTypeFromBuffer(d.chunks)))
  ELSE d
detOnData(d, chunk) == detEnough(detPush(d, chunk))

detOnEnd(d) ==
  IF d.totalBytes = 0
  THEN detSettle(d, Resolved(0, Unknown("Invalid file: empty stream")))
  ELSE detSettle(d, Resolved(0, detectTypeFromBuffer(d.chunks)))

detOnError(d, e) == detSettle(d, Rejected(StreamFailure(e)))

(***************************************************************************)
(* FileUploadController.uploadFile.  An error is the class it is an        *)
(* instance of (the base class the controller tests with instanceof, or    *)
(* "Error" for anything else) and its code; a response is the exception    *)
(* the returned promise is rejected with, or the frame count it resolves   *)
(* to.                                                                     *)
(***************************************************************************)
Raised(family, code) == [family |-> family, code |-> code]
Settled(kind, status, code, error, frameCount) ==
  [kind |-> kind, status |-> status, code |-> code, error |-> error,
   frameCount |-> frameCount]
\* new BadRequestException({error, code}), new InternalServerErrorException(..)
BadRequestException(code) ==
  Settled("exception", 400, code, Raised("none", "none"), 0)
InternalServerErrorException(code) ==
  Settled("exception", 500, code, Raised("none", "none"), 0)
\* reject(error): the error itself
Rethrown(error) == Settled("rethrown", 0, "none", error, 0)
Replied(frameCount) ==
  Settled("ok", 200, "none", Raised("none", "none"), frameCount)

\* faulty variant of convert: every storage error is reported as a read error
convertAllRead(error) ==
  IF error.family = "Mp3AnalysisError"
  THEN BadRequestException("INVALID_FORMAT")
  ELSE IF error.family = "FileStorageError"
  THEN InternalServerErrorException("STORAGE_READ_ERROR")
  ELSE Rethrown(error)

\* the catch block of the "finish" handler
convert(error) ==
  IF error.family = "Mp3AnalysisError"
  THEN BadRequestException("INVALID_FORMAT")
  ELSE IF error.family = "FileStorageError"
  THEN InternalServerErrorException(
         IF error.code = "UPLOAD_ERROR" THEN "STORAGE_UPLOAD_ERROR"
         ELSE "STORAGE_READ_ERROR")
  ELSE Rethrown(error)

\* resolve or reject of the promise uploadFile returned: the first one counts
settle(r, response, failure) ==
  IF r.response.kind # "none" THEN [r EXCEPT !.stage = "done"]
  ELSE [r EXCEPT !.stage = "done", !.response = response, !.failure = failure]

(***************************************************************************)
(* StreamTee.  The tee is a record of its fields; streams lists every      *)
(* PassThrough getStream has returned, tee.branches holding the indices of *)
(* those in its branches array.  A PassThrough is its queue of written     *)
(* chunks, what end() and destroy() did to it, the callback getStream left *)
(* with setImmediate, and what its reader has received.                    *)
(***************************************************************************)
NewTee ==
  [chunks |-> <<>>, isEnded |-> FALSE, error |-> NoError, branches |-> {}]

PassThrough(queue, callback, created) ==
  [queue |-> queue, ending |-> FALSE, destroyed |-> FALSE, closed |-> FALSE,
   immediate |-> callback, got |-> <<>>, ended |-> FALSE, failed |-> NoError,
   created |-> created]

\* branch.write(chunk), branch.end(), branch.destroy(error)
write(branch, chunk) ==
  IF branch.destroyed \/ branch.ending THEN branch
  ELSE [branch EXCEPT !.queue = Append(@, chunk)]
end(branch) ==
  IF branch.destroyed THEN branch ELSE [branch EXCEPT !.ending = TRUE]
destroy(branch, error) ==
  IF branch.destroyed THEN branch
  ELSE [branch EXCEPT !.destroyed = TRUE, !.queue = <<>>, !.failed = error]

\* for (const branch of this.branches) if (!branch.destroyed) ...
eachBranch(t, streams, Op(_)) ==
  [i \in 1..Len(streams) |->
     IF i \in t.branches /\ ~streams[i].destroyed THEN Op(streams[i])
     ELSE streams[i]]

\* the source's "data", "end" and "error" listeners: the new tee and streams
teeOnData(t, streams, chunk) ==
  [tee |-> [t EXCEPT !.chunks = Append(@, chunk)],
   streams |-> [i \in 1..Len(streams) |->
                  IF i \in t.branches /\ ~streams[i].destroyed
                  THEN write(streams[i], chunk) ELSE streams[i]]]
teeOnEnd(t, streams) ==
  [tee |-> [t EXCEPT !.isEnded = TRUE],
   streams |-> eachBranch(t, streams, end)]
\* faulty variant of teeOnError: the error is not kept for later getStream calls
teeOnErrorForgetful(t, streams, error) ==
  [tee |-> t,
   streams |-> [i \in 1..Len(streams) |->
                  IF i \in t.branches /\ ~streams[i].destroyed
                  THEN destroy(streams[i], error) ELSE streams[i]]]
teeOnError(t, streams, error) ==
  [tee |-> [t EXCEPT !.error = error],
   streams |-> [i \in 1..Len(streams) |->
                  IF i \in t.branches /\ ~streams[i].destroyed
                  THEN destroy(streams[i], error) ELSE streams[i]]]

\* when getStream was called, for the record
Moment(t) ==
  IF t.error # NoError THEN "after error"
  ELSE IF t.isEnded THEN "after end"
  ELSE IF t.chunks = <<>> THEN "before data"
  ELSE "between chunks"

\* faulty variant of getStream: the buffered chunks are not written to the
\* new branch
getStreamNoReplay(t, streams) ==
  IF t.error # NoError
  THEN [tee |-> t,
        streams |-> Append(streams, PassThrough(<<>>, "destroy", Moment(t)))]
  ELSE IF t.isEnded
  THEN [tee |-> t,
        streams |-> Append(streams, PassThrough(<<>>, "end", Moment(t)))]
  ELSE [tee |-> [t EXCEPT !.branches = @ \cup {Len(streams) + 1}],
        streams |-> Append(streams, PassThrough(<<>>, "none", Moment(t)))]

getStream(t, streams) ==
  IF t.error # NoError
  THEN [tee |-> t,
        streams |-> Append(streams, PassThrough(<<>>, "destroy", Moment(t)))]
  ELSE IF t.isEnded
  THEN [tee |-> t,
        streams |-> Append(streams, PassThrough(t.chunks, "end", Moment(t)))]
  ELSE [tee |-> [t EXCEPT !.branches = @ \cup {Len(streams) + 1}],
        streams |-> Append(streams, PassThrough(t.chunks, "none", Moment(t)))]

\* the callback getStream passed to setImmediate
runImmediate(t, branch) ==
  IF branch.immediate = "destroy"
  THEN [destroy(branch, t.error) EXCEPT !.immediate = "none"]
  ELSE [end(branch) EXCEPT !.immediate = "none"]

\* branch.on("close"): the branch leaves the branches array
onClose(t, i) == [t EXCEPT !.branches = @ \ {i}]

\* countFrames(buffer) run to its return or throw
RECURSIVE countFramesFrom(_, _)
countFramesFrom(buffer, s) ==
  IF Running(s) THEN countFramesFrom(buffer, countFramesLoop(buffer, s))
  ELSE s
countFrames(buffer) ==
  countFramesFrom(buffer, countFramesEnter(buffer)).outcome

(***************************************************************************)
(* S3Service.uploadStreamMultipart.  The locals of one call are a record:  *)
(* chunks (what the stream has still to emit, as chunk lengths), stream    *)
(* ("open", "ended", "errored", "destroyed"), buffer (its length),         *)
(* partNumber, isUploading, uploadQueue (the part numbers of the queued    *)
(* closures), sending (the part whose UploadPart the queue's runner        *)
(* awaits, 0 for none), final (where the end handler is: "none", "queue",  *)
(* "part", "complete", "done", "failed"), parts (the part numbers pushed,  *)
(* in order) and promise (the returned promise).  History fields:          *)
(* completedWith (the Parts of the CompleteMultipartUpload sent),          *)
(* unfinished (the parts queued or in flight when it was sent), busyAtEnd, *)
(* aborted and all (every chunk of the stream).  A successful UploadPart   *)
(* response carries an ETag.                                               *)
(***************************************************************************)
partSize == 5 * 1024 * 1024

NewMultipart(chunks) ==
  [chunks |-> chunks, stream |-> "open", buffer |-> 0, partNumber |-> 1,
   isUploading |-> FALSE, uploadQueue |-> <<>>, sending |-> 0,
   final |-> "none", parts |-> <<>>, promise |-> "pending",
   completedWith |-> <<>>, unfinished |-> {}, busyAtEnd |-> FALSE,
   aborted |-> FALSE, all |-> chunks]

\* reject(error) and resolve() of the returned promise: the first one counts
rejectUpload(m) ==
  IF m.promise = "pending" THEN [m EXCEPT !.promise = "rejected"] ELSE m
resolveUpload(m) ==
  IF m.promise = "pending" THEN [m EXCEPT !.promise = "resolved"] ELSE m

\* stream.destroy()
destroyStream(m) ==
  IF m.stream = "open" THEN [m EXCEPT !.stream = "destroyed"] ELSE m

\* the queue's runner takes the next closure and sends its UploadPart
sendNext(m) ==
  [m EXCEPT !.sending = Head(m.uploadQueue), !.uploadQueue = Tail(@)]

\* processUploadQueue up to its first await
processUploadQueue(m) ==
  IF m.isUploading \/ m.uploadQueue = <<>> THEN m
  ELSE sendNext([m EXCEPT !.isUploading = TRUE])

\* the data handler's loop: one part per partSize bytes buffered
RECURSIVE cutParts(_)
cutParts(m) ==
  IF m.buffer >= partSize
  THEN cutParts(processUploadQueue(
         [m EXCEPT !.buffer = @ - partSize,
                   !.uploadQueue = Append(@, m.partNumber),
                   !.partNumber = @ + 1]))
  ELSE m

\* stream.on("data")
partOnData(m, chunk) == cutParts([m EXCEPT !.buffer = @ + chunk])

\* the end handler sends CompleteMultipartUpload with the parts pushed so far
sendComplete(m) ==
  [m EXCEPT !.final = "complete",
            !.completedWith = m.parts,
            !.unfinished = {m.uploadQueue[i] : i \in 1..Len(m.uploadQueue)}
                           \cup (IF m.sending # 0 THEN {m.sending} ELSE {})]

\* the end handler once its await of processUploadQueue() has returned: the
\* rest of the buffer goes out as the final part, or the upload is completed
afterQueue(m) ==
  IF m.buffer > 0 THEN [m EXCEPT !.final = "part"] ELSE sendComplete(m)

\* the end handler's await of processUploadQueue(): r is the call's effect;
\* if the call became the runner the handler waits for it, otherwise the call
\* returned at once
awaitQueue(m, r) ==
  IF r.isUploading /\ ~m.isUploading THEN [r EXCEPT !.final = "queue"]
  ELSE afterQueue(r)

\* stream.on("end")
partOnEnd(m) ==
  awaitQueue([m EXCEPT !.stream = "ended", !.busyAtEnd = m.isUploading],
             processUploadQueue([m EXCEPT !.stream = "ended",
                                          !.busyAtEnd = m.isUploading]))

\* stream.on("error"): the upload is aborted and the promise rejected
partOnError(m) ==
  rejectUpload([m EXCEPT !.stream = "errored", !.aborted = TRUE])

\* the runner after a closure has returned: the next closure, or the end of
\* the loop, on which an end handler waiting for the runner goes on
runnerLoop(m) ==
  IF m.uploadQueue # <<>> THEN sendNext(m)
  ELSE IF m.final = "queue" THEN afterQueue([m EXCEPT !.isUploading = FALSE])
  ELSE [m EXCEPT !.isUploading = FALSE]

\* a queued closure's UploadPart succeeded: the part is pushed
uploadFnReturns(m) ==
  runnerLoop([m EXCEPT !.parts = Append(@, m.sending), !.sending = 0])

\* a queued closure's UploadPart failed: the closure destroys the stream,
\* rejects and throws; the runner drops isUploading and throws on
uploadFnThrows(m) ==
  rejectUpload(destroyStream(
    [m EXCEPT !.sending = 0, !.isUploading = FALSE,
              !.final = IF @ = "queue" THEN "failed" ELSE @]))

\* the end handler's UploadPart of the final part succeeded or failed
finalPartReturns(m) ==
  sendComplete([m EXCEPT !.parts = Append(@, m.partNumber)])
finalPartThrows(m) == rejectUpload([m EXCEPT !.final = "failed"])

\* CompleteMultipartUpload succeeded or failed
completeReturns(m) == resolveUpload([m EXCEPT !.final = "done"])
completeThrows(m) == rejectUpload([m EXCEPT !.final = "failed"])

VARIABLES
  segs,        \* the segments the stream is made of (never changes)
  source,      \* bytes the source has not delivered yet
  srcState,    \* "open", "ended" or "errored"
  it,          \* the Mp3FrameIterator
  pc,          \* the caller: "idle", "waiting", "settled" or "done"
  result,      \* the settlement of the caller's latest next()
  frameCount,  \* countFrames' counter
  outcome,     \* what countFrames returned or threw
  second,      \* the settlement of a next() made while one is pending
  extraCalls,  \* next() calls made after countFrames finished
  reported,    \* history: the positions of the frames next() returned
  registry,    \* ParserRegistryService.parsers
  regError,    \* what the latest registerParser call threw, if anything
  pf,          \* one processFile call: its position and locals
  awaited,     \* the settlement of the promise processFile awaits
  succeeded,   \* the awaited steps of processFile that have resolved
  firstFor,    \* history: the parser of the first registerParser call per key
  file,        \* the buffer handed to validate and countFrames
  stage,       \* "start", "probed", "validate", "count" or "done"
  validation,  \* validate's locals and outcome
  counting,    \* countFrames' locals and outcome
  probe,       \* what the codec said about one position of the buffer
  starts,      \* history: the start offsets of the frames countFrames counted
  detector,    \* one detectTypeFromStream call and its stream
  other,       \* a second request, while the first one's handlers run
  active,      \* which of the two requests the iterator variables hold
  teeSource,   \* the tee's source stream: bytes not emitted yet, and state
  tee,         \* the StreamTee
  streams,     \* every stream getStream has returned, in order
  request,     \* one upload request seen by the controller
  multipart    \* one uploadStreamMultipart call

iterVars == <<segs, source, srcState, it, pc, result, frameCount, outcome,
              second, extraCalls, reported>>
pfVars == <<registry, regError, pf, awaited, succeeded, firstFor>>
teeVars == <<teeSource, tee, streams>>
restVars == <<multipart>>
moreVars == <<request, restVars>>
laterVars == <<detector, other, active, teeVars, moreVars>>
parserVars == <<file, stage, validation, counting, probe, starts, laterVars>>
vars == <<iterVars, pfVars, parserVars>>

\* the stream, the iterator's fields and the caller at position at
IterAt(inputs, states, at) ==
  /\ segs \in inputs
  /\ source = StreamBytes(segs)
  /\ srcState \in states
  /\ it = NewIterator
  /\ pc = at
  /\ result = Unsettled
  /\ frameCount = 0
  /\ outcome = NoOutcome
  /\ second = NoCall
  /\ extraCalls = 0
  /\ reported = <<>>

\* the iterator constructed on a flowing stream
IterInit(inputs) == IterAt(inputs, {"open"}, "idle")

\* countFrames calls iterator.next()
\* next() returned r: the caller waits on the promise or has its result
Asked(r) ==
  /\ it' = r.it
  /\ result' = r.res
  /\ pc' = IF r.res.kind = "pending" THEN "waiting" ELSE "settled"

CallNext ==
  /\ pc = "idle"
  /\ Asked(next(it))
  /\ second' = NoCall
  /\ UNCHANGED <<reported, segs, source, srcState, frameCount, outcome, extraCalls,
                 pfVars, parserVars>>

\* a second next() on the iterator while the first is still pending
SecondNext ==
  /\ pc = "waiting"
  /\ second = NoCall
  /\ LET r == next(it)
     IN  /\ it' = r.it
         /\ second' = r.res
  /\ UNCHANGED <<reported, segs, source, srcState, pc, result, frameCount, outcome,
                 extraCalls,
                 pfVars, parserVars>>

\* a stream handler ran: the iterator it leaves and what it did to the
\* caller's pending promise
Settle(r) ==
  /\ it' = r.it
  /\ IF pc = "waiting" /\ r.res.kind # "pending"
     THEN /\ pc' = "settled"
          /\ result' = r.res
     ELSE UNCHANGED <<pc, result>>

\* the source emits "data" with the next n bytes
Data(n) ==
  /\ srcState = "open"
  /\ n >= 1
  /\ n <= Len(source)
  /\ Settle(onData(it, SubSeq(source, 1, n)))
  /\ source' = SubSeq(source, n + 1, Len(source))
  /\ UNCHANGED <<reported, segs, srcState, frameCount, outcome, second, extraCalls,
                 pfVars, parserVars>>

\* the source emits "end" after its last byte
End ==
  /\ srcState = "open"
  /\ source = <<>>
  /\ Settle(onEnd(it))
  /\ srcState' = "ended"
  /\ UNCHANGED <<reported, segs, source, frameCount, outcome, second, extraCalls,
                 pfVars, parserVars>>

\* the source emits "error"; nothing is delivered afterwards
Error(e) ==
  /\ srcState = "open"
  /\ Settle(onError(it, e))
  /\ srcState' = "errored"
  /\ UNCHANGED <<reported, segs, source, frameCount, outcome, second, extraCalls,
                 pfVars, parserVars>>

\* countFrames resumes with the settled result of next()
Consume ==
  /\ pc = "settled"
  /\ outcome = NoOutcome
  /\ IF result.kind = "frame"
     THEN /\ frameCount' = countFramesStep(frameCount, result)
          /\ pc' = "idle"
          /\ outcome' = outcome
     ELSE /\ frameCount' = frameCount
          /\ pc' = "done"
          /\ outcome' = IF result.kind = "null"
                        THEN countFramesFinish(frameCount)
                        ELSE Failure(result.err)
  /\ reported' = IF result.kind = "frame"
                 THEN Append(reported, result.position)
                 ELSE reported
  /\ UNCHANGED <<segs, source, srcState, it, result, second, extraCalls,
                 pfVars, parserVars>>

\* a later next() on the same iterator, after countFrames has finished
LaterNext ==
  /\ pc = "done"
  /\ extraCalls < MaxExtraCalls
  /\ LET r == next(it)
     IN  /\ it' = r.it
         /\ result' = r.res
  /\ extraCalls' = extraCalls + 1
  /\ UNCHANGED <<reported, segs, source, srcState, pc, frameCount, outcome, second,
                 pfVars, parserVars>>

Next ==
  \/ CallNext
  \/ SecondNext
  \/ \E n \in {ChunkSmall, ChunkBig, Len(source)} : Data(n)
  \/ End
  \/ \E e \in StreamErrors : Error(e)
  \/ Consume
  \/ LaterNext


(***************************************************************************)
(* The orchestrator's machine: parsers are registered at startup, then one *)
(* processFile call runs; the calls it awaits settle as their callees      *)
(* decide.                                                                 *)
(***************************************************************************)
MaxRegistrations == 2
MaxFrameCount == 2
ParserNames == {"mpeg1Layer3Parser", "otherParser"}
AnalysisCodes == {"TRUNCATED_FRAME", "NO_VALID_FRAMES"}
EmptyRegistry == [k \in {} |-> NoParser]

PFIdle ==
  /\ registry = EmptyRegistry
  /\ regError = PFNoError
  /\ pf = NotCalled
  /\ awaited = NotSettled
  /\ succeeded = {}
  /\ firstFor = EmptyRegistry

\* registerParser(version, layer, parser) returned or threw
Registered(r) ==
  /\ registry' = r.parsers
  /\ regError' = r.thrown

\* startup: registerParser(version, layer, parser), for a key already
\* registered or while fewer than MaxRegistrations keys are
Register(version, layer, parser) ==
  /\ pf.pc = "none"
  /\ \/ <<version, layer>> \in DOMAIN firstFor
     \/ Cardinality(DOMAIN firstFor) < MaxRegistrations
  /\ Registered(registerParser(registry, version, layer, parser))
  /\ firstFor' = IF <<version, layer>> \in DOMAIN firstFor THEN firstFor
                 ELSE [k \in DOMAIN firstFor \cup {<<version, layer>>} |->
                         IF k = <<version, layer>> THEN parser
                         ELSE firstFor[k]]
  /\ UNCHANGED <<pf, awaited, succeeded, iterVars, parserVars>>

\* a request arrives: processFile(key) is called
ProcessFile ==
  /\ pf.pc = "none"
  /\ regError = PFNoError
  /\ pf' = processFileCall
  /\ UNCHANGED <<registry, regError, awaited, succeeded, firstFor, iterVars,
                 parserVars>>

Awaiting(step) == pf.pc = step /\ awaited = NotSettled

\* getStreamTee resolves, or rejects with a storage failure
GetStreamTeeSettles ==
  /\ Awaiting("getStreamTee")
  /\ awaited' \in {Resolved(0, NoType), Rejected(ReadError)}
  /\ UNCHANGED <<registry, regError, pf, succeeded, firstFor, iterVars,
                 parserVars>>

\* detectTypeFromStream resolves with a descriptor, or rejects with the
\* stream's error
DetectSettles ==
  /\ Awaiting("detect")
  /\ awaited' \in {Resolved(0, t) : t \in TypeInfos}
                  \cup {Rejected(StreamFailure(e)) : e \in StreamErrors}
  /\ UNCHANGED <<registry, regError, pf, succeeded, firstFor, iterVars,
                 parserVars>>

\* parser.validate resolves, or rejects with an analysis or stream failure
ValidateSettles ==
  /\ Awaiting("validate")
  /\ awaited' \in {Resolved(0, NoType)}
                  \cup {Rejected(Mp3AnalysisError(c)) : c \in AnalysisCodes}
                  \cup {Rejected(StreamFailure(e)) : e \in StreamErrors}
  /\ UNCHANGED <<registry, regError, pf, succeeded, firstFor, iterVars,
                 parserVars>>

\* parser.countFrames resolves with a count, or rejects
CountFramesSettles ==
  /\ Awaiting("countFrames")
  /\ awaited' \in {Resolved(n, NoType) : n \in 1..MaxFrameCount}
                  \cup {Rejected(Mp3AnalysisError(NoValidFramesError))}
                  \cup {Rejected(StreamFailure(e)) : e \in StreamErrors}
  /\ UNCHANGED <<registry, regError, pf, succeeded, firstFor, iterVars,
                 parserVars>>

\* processFile continues with the settlement
Resume ==
  /\ pf.pc \in {"getStreamTee", "detect", "validate", "countFrames"}
  /\ awaited # NotSettled
  /\ pf' = processFileResume(pf, registry, awaited)
  /\ succeeded' = IF awaited.kind = "ok" THEN succeeded \cup {pf.pc}
                  ELSE succeeded
  /\ awaited' = NotSettled
  /\ UNCHANGED <<registry, regError, firstFor, iterVars, parserVars>>

PFNext ==
  \/ \E v \in Versions, l \in Layers, p \in ParserNames : Register(v, l, p)
  \/ ProcessFile
  \/ GetStreamTeeSettles
  \/ DetectSettles
  \/ ValidateSettles
  \/ CountFramesSettles
  \/ Resume

(***************************************************************************)
(* The buffer parser's machine: one buffer; either the codec is asked      *)
(* about one position of it, or validate runs on it and then countFrames,  *)
(* one loop iteration at a time.                                           *)
(***************************************************************************)
MaxProbe == 2
MaxRepeat == 11

\* n copies of a segment
RECURSIVE Repeat(_, _)
Repeat(k, n) == IF n = 0 THEN <<>> ELSE SegBytes(k) \o Repeat(k, n - 1)

\* header FF FB 90 00 (128 kbps, 44.1 kHz) followed by a 417-byte body
HeaderAndBody == <<255, 251, 144, 0>> \o Zeros(417)
TwoFrames == HeaderAndBody \o HeaderAndBody

\* every 4-byte header over these byte values: sync byte or not; MPEG-1
\* Layer 3 with and without CRC, MPEG-2 Layer 3, MPEG-1 Layer 2, MPEG-1
\* Layer 3 bits without the sync bits; every bitrate / sample rate / padding
\* byte; emphasis none and reserved, mono
Headers4 ==
  {<<b0, b1, b2, b3>> : b0 \in {255, 0}, b1 \in {251, 250, 243, 253, 27},
                        b2 \in 0..255, b3 \in {0, 2, 192}}

ShortFiles ==
  {<<>>, <<0>>, <<255>>, <<255, 251>>, <<255, 251, 144>>, <<0, 1, 2>>,
   <<0, 1, 2, 3, 4>>, <<255, 251, 144, 0, 0>>}

\* ten-byte tag headers, with the magic or with its first byte off, over
\* size bytes with and without the high bit, followed by bodyLength zeros
TagHeaders ==
  {<<m, 68, 51, 3, 0, 0, s6, s7, s8, s9>> \o Zeros(bodyLength) :
     m \in {73, 72}, s6 \in {0, 128}, s7 \in {0, 128}, s8 \in {0, 1},
     s9 \in {0, 3, 127, 128, 131, 255}, bodyLength \in {0, 3, 140}}

Files ==
  {StreamBytes(ks) : ks \in SegSeqs} \cup ShortFiles \cup Headers4
  \cup TagHeaders \cup {<<73, 68, 51, 3, 0, 0, 0, 0, 0>>}
  \cup {TwoFrames, Repeat("F96", MaxRepeat) \o SegBytes("TRUNC")}
  \cup {Repeat("F96", maxFramesToCheck) \o t :
          t \in {<<>>, Zeros(alignmentTolerance + 2), SegBytes("JUNK")}}
  \cup {Repeat("F96", n) \o gap \o t :
          n \in 1..2,
          gap \in {Zeros(alignmentTolerance), Zeros(alignmentTolerance + 1)},
          t \in {SegBytes("F96"), <<255>>, <<255, 251>>}}

NoProbe == [position |-> -1, sync |-> FALSE, member |-> FALSE, length |-> 0,
            parsed |-> Returned(0), tagEnd |-> 0]

\* no call has been made on the buffer
ParserAt(st) ==
  /\ stage = st
  /\ validation = NotEntered
  /\ counting = NotEntered
  /\ probe = NoProbe
  /\ starts = <<>>

\* a request's stream, iterator and countFrames call, as IterInit leaves them
NewRequest(ks) ==
  [segs |-> ks, source |-> StreamBytes(ks), srcState |-> "open",
   it |-> NewIterator, pc |-> "idle", result |-> Unsettled, frameCount |-> 0,
   outcome |-> NoOutcome, reported |-> <<>>]

OneRequest == other = NewRequest(<<>>) /\ active = 1

NoSource == [rest |-> <<>>, state |-> "off", all |-> <<>>, error |-> NoError]
TeeIdle == teeSource = NoSource /\ tee = NewTee /\ streams = <<>>

NoFailure == [family |-> "none", code |-> "none"]
NoResponse == [kind |-> "none", status |-> 0, code |-> "none",
               error |-> NoFailure, frameCount |-> 0]
NoScript == [contentType |-> "", parts |-> <<>>, busboy |-> NoFailure,
             upload |-> NoFailure, detect |-> "", validate |-> NoFailure,
             count |-> NoFailure, frames |-> 0]
NewUpload(script) ==
  [script |-> script, parts |-> script.parts, stage |-> "new",
   fileReceived |-> FALSE, uploading |-> FALSE, response |-> NoResponse,
   failure |-> NoFailure]
NoMultipart == [NewMultipart(<<>>) EXCEPT !.stream = "off"]
RestIdle == multipart = NoMultipart
MoreIdle ==
  /\ request = [NewUpload(NoScript) EXCEPT !.stage = "off"]
  /\ RestIdle

LaterIdle == detector = NoDetector /\ OneRequest /\ TeeIdle /\ MoreIdle

ParserIdle == file = <<>> /\ ParserAt("off") /\ LaterIdle

ParserStart == file \in Files /\ ParserAt("start") /\ LaterIdle

\* the codec is asked about position p
Probe(p) ==
  /\ stage = "start"
  /\ probe' = [position |-> p,
               sync |-> isFrameSync(file, p),
               member |-> isFormatSpecificFrame(file, p),
               length |-> calculateFrameLength(
                            subarray(file, p, p + FRAME_HEADER_SIZE)),
               parsed |-> parseFrameHeader(file, p),
               tagEnd |-> findId3v2TagEnd(file)]
  /\ stage' = "probed"
  /\ UNCHANGED <<file, validation, counting, starts, laterVars, iterVars,
                 pfVars>>

\* validate(buffer) is called
ValidateCall ==
  /\ stage = "start"
  /\ validation' = validateEnter(file)
  /\ stage' = "validate"
  /\ UNCHANGED <<file, counting, probe, starts, laterVars, iterVars,
                 pfVars>>

\* validate's loop runs once more, or ends
ValidateLoop ==
  /\ stage = "validate"
  /\ Running(validation)
  /\ validation' = validateStep(file, validation)
  /\ UNCHANGED <<file, stage, counting, probe, starts, laterVars, iterVars,
                 pfVars>>

\* countFrames(buffer) is called, once validate has returned or thrown
CountFramesCall ==
  /\ stage = "validate"
  /\ ~Running(validation)
  /\ counting' = countFramesEnter(file)
  /\ stage' = "count"
  /\ UNCHANGED <<file, validation, probe, starts, laterVars, iterVars,
                 pfVars>>

\* countFrames' loop runs once more, or ends
CountFramesLoop ==
  /\ stage = "count"
  /\ Running(counting)
  /\ counting' = countFramesLoop(file, counting)
  /\ starts' = IF counting'.n > counting.n
               THEN Append(starts, counting.position)
               ELSE starts
  /\ UNCHANGED <<file, stage, validation, probe, laterVars, iterVars,
                 pfVars>>

ParserNext ==
  \/ \E p \in 0..MaxProbe : Probe(p)
  \/ ValidateCall
  \/ ValidateLoop
  \/ CountFramesCall
  \/ CountFramesLoop

\* both methods have returned or thrown
Parsed == stage = "count" /\ ~Running(counting)

(***************************************************************************)
(* Specifications.  Spec: a countFrames walk over an iterator fed by a     *)
(* chunked stream.  SpecPF: the registry and one processFile call.         *)
(***************************************************************************)
Init == IterInit(SegSeqs) /\ PFIdle /\ ParserIdle
Spec == Init /\ [][Next]_vars

\* streams of three and four frames, alone and after junk or a tag
SeqInputs ==
  {<<"F96", "F96", "F96">>, <<"F96", "F97", "F96", "F97">>,
   <<"JUNK", "F96", "F96">>, <<"TAG", "F97", "F97", "F96">>,
   <<"XING", "F96", "F96">>}
InitSeq == IterInit(SeqInputs) /\ PFIdle /\ ParserIdle
SpecSeq == InitSeq /\ [][Next]_vars

\* the same machine on a fixed catalogue of streams, with a source that keeps
\* delivering until it has signalled its end (unless it fails first) and a
\* countFrames loop that keeps running: each is a callback or continuation
\* the event loop runs once it is ready
LiveInputs ==
  {<<>>, <<"F96">>, <<"JUNK", "F96">>, <<"TAG", "F97", "F96">>, <<"TRUNC">>,
   <<"XING", "F96">>, <<"F96", "TRUNC">>, <<"TAGF">>}
InitLive == IterInit(LiveInputs) /\ PFIdle /\ ParserIdle
\* Data and CallNext as they show on source and on pc: the steps of Next that
\* change source are the Data steps, those that take pc from "idle" are the
\* CallNext steps, and each is enabled exactly when its action is
Delivers ==
  /\ srcState = "open"
  /\ \E n \in {ChunkSmall, ChunkBig, Len(source)} :
       /\ n >= 1
       /\ n <= Len(source)
       /\ source' = SubSeq(source, n + 1, Len(source))
Calls == pc = "idle" /\ pc' \in {"waiting", "settled"}
Fairness ==
  /\ WF_source(Delivers)
  /\ WF_vars(End)
  /\ WF_pc(Calls)
  /\ WF_vars(Consume)
SpecLive == InitLive /\ [][Next]_vars /\ Fairness

\* a long stream of frames in chunks of ChunkBig, the consumer calling next() and
\* taking the result whenever it likes, for its first MaxLongCalls frames
LongFrames == 16
MaxLongCalls == 2
LongInputs == {[i \in 1..LongFrames |-> "F96"]}
NextChunk == IF Len(source) < ChunkBig THEN Len(source) ELSE ChunkBig
\* the constructor: the listeners are attached and a paused stream is resumed
setupStreamListeners ==
  /\ pc = "new"
  /\ pc' = "idle"
  /\ srcState' = IF srcState = "paused" THEN "open" ELSE srcState
  /\ UNCHANGED <<reported, segs, source, it, result, frameCount, outcome,
                 second, extraCalls, pfVars, parserVars>>
LongNext ==
  \/ setupStreamListeners
  \/ CallNext /\ Len(reported) < MaxLongCalls
  \/ Data(NextChunk) /\ pc # "new"
  \/ End /\ pc # "new"
  \/ Consume
\* the stream is handed to the constructor flowing or paused
InitLong == IterAt(LongInputs, {"open", "paused"}, "new") /\ PFIdle /\ ParserIdle
SpecLong == InitLong /\ [][LongNext]_vars

InitPF == IterInit({<<>>}) /\ PFIdle /\ ParserIdle
SpecPF == InitPF /\ [][PFNext]_vars

InitParser == IterInit({<<>>}) /\ PFIdle /\ ParserStart
SpecParser == InitParser /\ [][ParserNext]_vars

(***************************************************************************)
(* The detector's machine: a stream of the bytes of file, delivered in     *)
(* chunks, ending or failing; detectTypeFromStream listens to it.          *)
(***************************************************************************)
\* the default minBytes, and a small one that the streams here reach
DefaultMinBytes == 8192
SmallMinBytes == 20
DetChunk == 7
DetectChunks == {1, DetChunk}

\* frame headers in the last bytes of a buffer, after padding
SyncAtEnd ==
  {Zeros(lead) \o <<255, b1, 144, 0>> \o Zeros(trail) :
     lead \in {0, 3, 30}, b1 \in {251, 243, 253, 227}, trail \in 0..2}

DetectFiles ==
  {StreamBytes(ks) : ks \in SegSeqs} \cup ShortFiles \cup SyncAtEnd
  \cup {<<0, 0, 0, 0, 0, 0, 255>>}

Prefix(bytes, n) == SubSeq(bytes, 1, IF n < Len(bytes) THEN n ELSE Len(bytes))
Suffix(bytes, n) == SubSeq(bytes, (IF n < Len(bytes) THEN n ELSE Len(bytes)) + 1,
                           Len(bytes))

DetectStart ==
  /\ file \in DetectFiles
  /\ ParserAt("off")
  /\ detector \in {NewDetector(file, m) : m \in {DefaultMinBytes, SmallMinBytes}}
  /\ OneRequest
  /\ TeeIdle
  /\ MoreIdle

\* the stream took chunk off its source and emitted "data"
detEmitData(d, chunk, rest) ==
  IF d.listening THEN [detOnData(d, chunk) EXCEPT !.rest = rest]
  ELSE [d EXCEPT !.rest = rest]

DetectData(n) ==
  /\ detector.srcState = "open"
  /\ detector.rest # <<>>
  /\ detector' = detEmitData(detector, Prefix(detector.rest, n),
                             Suffix(detector.rest, n))
  /\ UNCHANGED <<file, stage, validation, counting, probe, starts, other,
                 active, teeVars, moreVars, iterVars, pfVars>>

detEmitEnd(d) ==
  IF d.listening THEN [detOnEnd(d) EXCEPT !.srcState = "ended"]
  ELSE [d EXCEPT !.srcState = "ended"]

DetectEnd ==
  /\ detector.srcState = "open"
  /\ detector.rest = <<>>
  /\ detector' = detEmitEnd(detector)
  /\ UNCHANGED <<file, stage, validation, counting, probe, starts, other,
                 active, teeVars, moreVars, iterVars, pfVars>>

detEmitError(d, e) ==
  IF d.listening THEN [detOnError(d, e) EXCEPT !.srcState = "errored"]
  ELSE [d EXCEPT !.srcState = "errored"]

DetectError(e) ==
  /\ detector.srcState = "open"
  /\ detector' = detEmitError(detector, e)
  /\ UNCHANGED <<file, stage, validation, counting, probe, starts, other,
                 active, teeVars, moreVars, iterVars, pfVars>>

DetectNext ==
  \/ \E n \in DetectChunks : DetectData(n)
  \/ DetectEnd
  \/ \E e \in StreamErrors : DetectError(e)

InitDetect == IterInit({<<>>}) /\ PFIdle /\ DetectStart
SpecDetect == InitDetect /\ [][DetectNext]_vars

(***************************************************************************)
(* The tee's machine: a source emits its bytes in chunks and ends or       *)
(* fails; getStream is called at any moment; each returned stream has a    *)
(* reader that takes chunks at its own pace, or never, or destroys it.     *)
(***************************************************************************)
MaxBranches == 2
TeeChunk == 2
TeeSources == {<<>>, <<11>>, <<11, 12, 13>>}

notTee == <<iterVars, pfVars, file, stage, validation, counting, probe,
            starts, detector, other, active, moreVars>>

TeeStart ==
  /\ teeSource \in {[rest |-> bytes, state |-> "open", all |-> bytes,
                       error |-> NoError] :
                      bytes \in TeeSources}
  /\ tee = NewTee
  /\ streams = <<>>

Apply(r) == tee' = r.tee /\ streams' = r.streams

\* the source emits "data" with its next n bytes
SourceData(n) ==
  /\ teeSource.state = "open"
  /\ teeSource.rest # <<>>
  /\ Apply(teeOnData(tee, streams, Prefix(teeSource.rest, n)))
  /\ teeSource' = [teeSource EXCEPT !.rest = Suffix(@, n)]
  /\ UNCHANGED notTee

SourceEnd ==
  /\ teeSource.state = "open"
  /\ teeSource.rest = <<>>
  /\ Apply(teeOnEnd(tee, streams))
  /\ teeSource' = [teeSource EXCEPT !.state = "ended"]
  /\ UNCHANGED notTee

SourceError(e) ==
  /\ teeSource.state = "open"
  /\ Apply(teeOnError(tee, streams, e))
  /\ teeSource' = [teeSource EXCEPT !.state = "errored", !.error = e]
  /\ UNCHANGED notTee

GetStream ==
  /\ Len(streams) < MaxBranches
  /\ Apply(getStream(tee, streams))
  /\ UNCHANGED <<teeSource, notTee>>

\* the setImmediate callback of stream i runs
Immediate(i) ==
  /\ streams[i].immediate # "none"
  /\ streams' = [streams EXCEPT ![i] = runImmediate(tee, @)]
  /\ UNCHANGED <<teeSource, tee, notTee>>

\* the reader of stream i receives the next chunk
Read(i) ==
  /\ ~streams[i].destroyed
  /\ streams[i].queue # <<>>
  /\ streams' = [streams EXCEPT ![i].got = @ \o Head(streams[i].queue),
                                ![i].queue = Tail(@)]
  /\ UNCHANGED <<teeSource, tee, notTee>>

\* the reader of stream i receives "end"; the stream then destroys itself
ReadEnd(i) ==
  /\ ~streams[i].destroyed
  /\ streams[i].queue = <<>>
  /\ streams[i].ending
  /\ streams' = [streams EXCEPT ![i].ended = TRUE, ![i].destroyed = TRUE]
  /\ UNCHANGED <<teeSource, tee, notTee>>

\* the reader of stream i gives up and destroys it
Abandon(i) ==
  /\ ~streams[i].destroyed
  /\ streams' = [streams EXCEPT ![i] = destroy(@, NoError)]
  /\ UNCHANGED <<teeSource, tee, notTee>>

\* stream i emits "close"
Close(i) ==
  /\ streams[i].destroyed
  /\ ~streams[i].closed
  /\ streams' = [streams EXCEPT ![i].closed = TRUE]
  /\ tee' = IF streams[i].created = "after error" THEN tee
            ELSE onClose(tee, i)
  /\ UNCHANGED <<teeSource, notTee>>

TeeNext ==
  \/ \E n \in {1, TeeChunk} : SourceData(n)
  \/ SourceEnd
  \/ \E e \in StreamErrors : SourceError(e)
  \/ GetStream
  \/ \E i \in 1..Len(streams) : Immediate(i)
  \/ \E i \in 1..Len(streams) : Read(i)
  \/ \E i \in 1..Len(streams) : ReadEnd(i)
  \/ \E i \in 1..Len(streams) : Abandon(i)
  \/ \E i \in 1..Len(streams) : Close(i)

InitTee ==
  /\ IterInit({<<>>})
  /\ PFIdle
  /\ file = <<>>
  /\ ParserAt("off")
  /\ detector = NoDetector
  /\ OneRequest
  /\ TeeStart
  /\ MoreIdle
SpecTee == InitTee /\ [][TeeNext]_vars

(***************************************************************************)
(* The controller's machine: one upload request.  What the request holds   *)
(* and what each awaited call does is drawn when the request arrives; the  *)
(* multipart parser then reports the parts, an error or the finish, and    *)
(* the finish handler runs from one await to the next.                     *)
(***************************************************************************)
FileStorageErrorCodes ==
  {"UPLOAD_ERROR", "READ_ERROR", "OBJECT_NOT_FOUND", "OBJECT_EMPTY",
   "STORAGE_UNAVAILABLE"}
Mp3AnalysisErrorCodes ==
  {"INVALID_FORMAT", "EMPTY_BUFFER", "FILE_TOO_SMALL",
   "CORRUPTED_FRAME_HEADER", "TRUNCATED_FRAME", "FRAME_ALIGNMENT_ERROR",
   "CORRUPTED_FRAME", "NO_VALID_FRAMES"}
StorageThrows == {Raised("FileStorageError", c) : c \in FileStorageErrorCodes}
AnalysisThrows == {Raised("Mp3AnalysisError", c) : c \in Mp3AnalysisErrorCodes}
OtherThrows == {Raised("Error", e) : e \in StreamErrors}
Quiet == {Raised("none", "none")}

Scripts ==
  [contentType : {"multipart/form-data; boundary=x", "application/json"},
   parts : {<<>>, <<"file">>, <<"note">>, <<"note", "file">>},
   busboy : Quiet \cup {Raised("Error", "Unexpected end of form")},
   upload : Quiet \cup StorageThrows,
   detect : {"MPEG-1 Layer 3", "MPEG-2 Layer 2", "ECONNRESET"},
   validate : Quiet \cup AnalysisThrows \cup OtherThrows
                \cup {Raised("FileStorageError", "READ_ERROR")},
   count : Quiet \cup {Raised("Mp3AnalysisError", "NO_VALID_FRAMES"),
                        Raised("Error", "ECONNRESET")},
   frames : {MaxFrameCount}]

notRequest == <<iterVars, pfVars, file, stage, validation, counting, probe,
                starts, detector, other, active, teeVars, restVars>>

\* contentType.includes("multipart/form-data")
isMultipart(contentType) ==
  contentType = "multipart/form-data; boundary=x"

\* uploadFile is called: the content-type check, then the request is piped
\* to busboy
UploadFile ==
  /\ request.stage = "new"
  /\ request' =
       IF ~isMultipart(request.script.contentType)
       THEN settle(request, BadRequestException("FILE_REQUIRED"),
                   Raised("UploadValidationError", "contentType"))
       ELSE [request EXCEPT !.stage = "busboy"]
  /\ UNCHANGED notRequest

\* busboy.on("file"): a part named "file" starts the upload, any other part
\* is drained
BusboyFile ==
  /\ request.stage = "busboy"
  /\ request.parts # <<>>
  /\ request' =
       IF Head(request.parts) # "file"
       THEN [request EXCEPT !.parts = Tail(@)]
       ELSE [request EXCEPT !.parts = Tail(@), !.fileReceived = TRUE,
                            !.uploading = TRUE]
  /\ UNCHANGED notRequest

\* busboy.on("error")
BusboyError ==
  /\ request.stage = "busboy"
  /\ request.script.busboy # Raised("none", "none")
  /\ request' = settle(request, BadRequestException("FILE_REQUIRED"),
                       Raised("UploadValidationError", "busboy"))
  /\ UNCHANGED notRequest

\* busboy.on("finish") up to its first await
BusboyFinish ==
  /\ request.stage = "busboy"
  /\ request.parts = <<>>
  /\ request.script.busboy = Raised("none", "none")
  /\ request' =
       IF ~request.fileReceived \/ ~request.uploading
       THEN settle(request, BadRequestException("FILE_REQUIRED"),
                   Raised("UploadValidationError", "file"))
       ELSE [request EXCEPT !.stage = "upload"]
  /\ UNCHANGED notRequest

\* await uploadPromise
AwaitUpload ==
  /\ request.stage = "upload"
  /\ request' =
       IF request.script.upload # Raised("none", "none")
       THEN settle(request, convert(request.script.upload),
                   request.script.upload)
       ELSE [request EXCEPT !.stage = "detect"]
  /\ UNCHANGED notRequest

\* await detectTypeFromStream, then getParser
AwaitDetect ==
  /\ request.stage = "detect"
  /\ request' =
       IF request.script.detect \in StreamErrors
       THEN settle(request, convert(Raised("Error", request.script.detect)),
                   Raised("Error", request.script.detect))
       ELSE IF request.script.detect # "MPEG-1 Layer 3"
       THEN settle(request, BadRequestException("UNSUPPORTED_FORMAT"),
                   Raised("UnsupportedFormatError", request.script.detect))
       ELSE [request EXCEPT !.stage = "validate"]
  /\ UNCHANGED notRequest

\* await parser.validate(validationIterator)
AwaitValidate ==
  /\ request.stage = "validate"
  /\ request' =
       IF request.script.validate # Raised("none", "none")
       THEN settle(request, convert(request.script.validate),
                   request.script.validate)
       ELSE [request EXCEPT !.stage = "count"]
  /\ UNCHANGED notRequest

\* await parser.countFrames(countingIterator), then resolve
AwaitCountFrames ==
  /\ request.stage = "count"
  /\ request' =
       IF request.script.count # Raised("none", "none")
       THEN settle(request, convert(request.script.count),
                   request.script.count)
       ELSE settle(request, Replied(request.script.frames),
                   Raised("none", "none"))
  /\ UNCHANGED notRequest

UploadNext ==
  \/ UploadFile
  \/ BusboyFile
  \/ BusboyError
  \/ BusboyFinish
  \/ AwaitUpload
  \/ AwaitDetect
  \/ AwaitValidate
  \/ AwaitCountFrames

InitUpload ==
  /\ IterInit({<<>>})
  /\ PFIdle
  /\ file = <<>>
  /\ ParserAt("off")
  /\ detector = NoDetector
  /\ OneRequest
  /\ TeeIdle
  /\ request \in {NewUpload(script) : script \in Scripts}
  /\ RestIdle
SpecUpload == InitUpload /\ [][UploadNext]_vars

(***************************************************************************)
(* The multipart upload's machine: a stream of up to MaxChunks chunks; the *)
(* stream's events and the responses of S3 come in any order.              *)
(***************************************************************************)
MaxChunks == 3
ChunkLengths == {partSize \div 2, partSize, 2 * partSize + 1}
ChunkSeqs == UNION {[1..n -> ChunkLengths] : n \in 0..MaxChunks}

notMultipart == <<iterVars, pfVars, file, stage, validation, counting, probe,
                  starts, detector, other, active, teeVars, request>>

\* the stream emits its next chunk
PartData ==
  /\ multipart.stream = "open"
  /\ multipart.chunks # <<>>
  /\ multipart' = partOnData([multipart EXCEPT !.chunks = Tail(@)],
                             Head(multipart.chunks))
  /\ UNCHANGED notMultipart

\* the stream ends
PartEnd ==
  /\ multipart.stream = "open"
  /\ multipart.chunks = <<>>
  /\ multipart' = partOnEnd(multipart)
  /\ UNCHANGED notMultipart

\* the stream fails
PartError ==
  /\ multipart.stream = "open"
  /\ multipart' = partOnError(multipart)
  /\ UNCHANGED notMultipart

\* S3 answers the UploadPart of a queued part
UploadPartSettles ==
  /\ multipart.sending # 0
  /\ \/ multipart' = uploadFnReturns(multipart)
     \/ multipart' = uploadFnThrows(multipart)
  /\ UNCHANGED notMultipart

\* S3 answers the UploadPart of the final part
FinalPartSettles ==
  /\ multipart.final = "part"
  /\ \/ multipart' = finalPartReturns(multipart)
     \/ multipart' = finalPartThrows(multipart)
  /\ UNCHANGED notMultipart

\* S3 answers CompleteMultipartUpload
CompleteSettles ==
  /\ multipart.final = "complete"
  /\ \/ multipart' = completeReturns(multipart)
     \/ multipart' = completeThrows(multipart)
  /\ UNCHANGED notMultipart

MultipartNext ==
  \/ PartData
  \/ PartEnd
  \/ PartError
  \/ UploadPartSettles
  \/ FinalPartSettles
  \/ CompleteSettles

InitMultipart ==
  /\ IterInit({<<>>})
  /\ PFIdle
  /\ file = <<>>
  /\ ParserAt("off")
  /\ detector = NoDetector
  /\ OneRequest
  /\ TeeIdle
  /\ request = [NewUpload(NoScript) EXCEPT !.stage = "off"]
  /\ multipart \in {NewMultipart(chunks) : chunks \in ChunkSeqs}
SpecMultipart == InitMultipart /\ [][MultipartNext]_vars

(***************************************************************************)
(* Two requests.  Each has its own stream, iterator and countFrames call;  *)
(* handlers run one at a time, so the iterator variables hold the request  *)
(* whose handler runs and other holds the one that waits.  The parser and  *)
(* the registry are the only objects both use, and neither has a field     *)
(* that a request writes.                                                  *)
(***************************************************************************)
TwoInputs == {<<"F96">>, <<"TAGF">>, <<"XING", "F97">>, <<"JUNK", "F96">>}

\* the next handler to run belongs to the other request
Interleave ==
  /\ other' = [segs |-> segs, source |-> source, srcState |-> srcState,
               it |-> it, pc |-> pc, result |-> result,
               frameCount |-> frameCount, outcome |-> outcome,
               reported |-> reported]
  /\ segs' = other.segs
  /\ source' = other.source
  /\ srcState' = other.srcState
  /\ it' = other.it
  /\ pc' = other.pc
  /\ result' = other.result
  /\ frameCount' = other.frameCount
  /\ outcome' = other.outcome
  /\ reported' = other.reported
  /\ active' = 3 - active
  /\ UNCHANGED <<second, extraCalls, pfVars, file, stage, validation,
                 counting, probe, starts, detector, teeVars, moreVars>>

TwoNext ==
  \/ CallNext
  \/ \E n \in {ChunkSmall, Len(source)} : Data(n)
  \/ End
  \/ Consume
  \/ Interleave

InitTwo ==
  /\ IterInit(TwoInputs)
  /\ PFIdle
  /\ file = <<>>
  /\ ParserAt("off")
  /\ detector = NoDetector
  /\ other \in {NewRequest(ks) : ks \in TwoInputs}
  /\ active = 1
  /\ TeeIdle
  /\ MoreIdle
SpecTwo == InitTwo /\ [][TwoNext]_vars

(***************************************************************************)
(* The reference run: the whole stream delivered as one chunk.  The caller *)
(* calls next() first, the single "data" event follows, the caller walks   *)
(* the frames, and "end" arrives when a call is left waiting.              *)
(***************************************************************************)
RECURSIVE Walk(_, _, _)
Walk(this, count, res) ==
  CASE res.kind = "frame" ->
         LET r == next(this)
         IN  Walk(r.it, countFramesStep(count, res), r.res)
    [] res.kind = "null" -> countFramesFinish(count)
    [] res.kind = "error" -> Failure(res.err)
    [] res.kind = "pending" ->
         LET e == onEnd(this)
         IN  Walk(e.it, count, e.res)

SingleChunkOutcome(bytes) ==
  LET r0 == next(NewIterator)
      d == IF bytes = <<>> THEN r0 ELSE onData(r0.it, bytes)
  IN  Walk(d.it, 0, d.res)

\* countFrames has finished over a stream that ended without error
Finished == pc = "done" /\ srcState = "ended"

(***************************************************************************)
(* C1.  Chunk-boundary independence: however the stream is split into      *)
(* chunks, countFrames gives the outcome (count or failure kind) it gives  *)
(* when the same bytes arrive as a single chunk.                           *)
(***************************************************************************)
C1_ChunkIndependence ==
  Finished => outcome = SingleChunkOutcome(StreamBytes(segs))

(***************************************************************************)
(* C3.  Tag transparency: over a stream made of a leading tag followed by  *)
(* valid frames, countFrames returns what it returns over the frames       *)
(* alone, however the stream is chunked.                                   *)
(***************************************************************************)
TagThenFrames ==
  /\ Len(segs) >= 2
  /\ segs[1] \in TagKinds
  /\ \A i \in 2..Len(segs) : segs[i] \in AudioKinds

C3_TagTransparent ==
  (Finished /\ TagThenFrames)
    => outcome = SingleChunkOutcome(StreamBytes(Tail(segs)))

(***************************************************************************)
(* Vocabulary of the claims about the iterator, stated on the buffer       *)
(* itself rather than through the scan loop.                               *)
(***************************************************************************)
\* a header the scan recognises at position p: sync, format and length > 0
HeaderAt(buffer, p) ==
  /\ isFrameSync(buffer, p)
  /\ isFormatSpecificFrame(buffer, p)
  /\ calculateFrameLength(subarray(buffer, p, p + FRAME_HEADER_SIZE)) > 0

LengthAt(buffer, p) ==
  calculateFrameLength(subarray(buffer, p, p + FRAME_HEADER_SIZE))

\* the positions from the cursor on that the scan may examine and recognise
Headers(this) ==
  {p \in this.currentPosition..(Len(this.buffer) - getMinFrameSize - 1) :
     HeaderAt(this.buffer, p)}

HasHeader(this) == Headers(this) # {}
FirstHeader(this) ==
  CHOOSE p \in Headers(this) : \A q \in Headers(this) : p <= q

\* the first recognised frame runs past the buffered bytes
Overrun(this) ==
  /\ HasHeader(this)
  /\ FirstHeader(this) + LengthAt(this.buffer, FirstHeader(this))
       > Len(this.buffer)

\* a complete frame can be emitted from the buffered bytes
Emittable(this) == HasHeader(this) /\ ~Overrun(this)

\* offset in the stream of the first byte of the buffer window
WindowBase == Len(StreamBytes(segs)) - Len(source) - Len(it.buffer)

\* the caller's next() is made in this step
CallStep == (pc = "idle" /\ pc' # "idle") \/ extraCalls' # extraCalls

AllAudio == \A i \in 1..Len(segs) : segs[i] \in AudioKinds

(***************************************************************************)
(* C2.  Over a stream made only of N >= 1 back-to-back valid frames (no    *)
(* tag, no summary frame) countFrames returns exactly N.                   *)
(***************************************************************************)
C2_CountsEveryFrame ==
  (Finished /\ AllAudio /\ Len(segs) >= 1) => outcome = Count(Len(segs))

C2_Witness ==
  /\ Finished
  /\ AllAudio
  /\ Len(segs) >= 2
  /\ segs[1] = "FSYNC"
  /\ outcome = Count(Len(segs))

(***************************************************************************)
(* C4.  Over a stream made of one summary frame followed by N audio        *)
(* frames countFrames returns N (the summary frame is not counted and its  *)
(* whole length is skipped).  As stated, for every N including 0:          *)
(***************************************************************************)
SummaryThenAudio ==
  /\ Len(segs) >= 1
  /\ segs[1] \in SummaryKinds
  /\ \A i \in 2..Len(segs) : segs[i] \in AudioKinds

C4_Original ==
  (Finished /\ SummaryThenAudio) => outcome = Count(Len(segs) - 1)

\* C4 as amended: for N >= 1 countFrames returns N; for N = 0 it fails with
\* the no-valid-frames kind.
C4_SummaryNotCounted ==
  (Finished /\ SummaryThenAudio)
    => outcome = IF Len(segs) >= 2
                 THEN Count(Len(segs) - 1)
                 ELSE Failure(NoValidFramesError)

C4_Witness ==
  /\ Finished
  /\ SummaryThenAudio
  /\ Len(segs) >= 2
  /\ outcome = Count(Len(segs) - 1)

(***************************************************************************)
(* C5.  Every frame returned by next() lies inside the buffer window it    *)
(* refers to (position + length <= the window's length); and a next()      *)
(* made while the first recognised frame runs past the buffered bytes and  *)
(* the source has not ended returns no frame: the call is left waiting     *)
(* and the cursor rests on that frame's first byte.                        *)
(***************************************************************************)
FrameInsideWindow(r) ==
  r.kind = "frame" => r.position + r.length <= Len(r.buffer)

C5_FrameFitsOrWaits ==
  /\ [](FrameInsideWindow(result) /\ FrameInsideWindow(second))
  /\ [][(/\ CallStep
         /\ it.streamError = NoError
         /\ ~it.isEnded
         /\ Overrun(it))
          => (/\ result'.kind = "pending"
              /\ pc' = "waiting"
              /\ WindowBase' + it'.currentPosition
                   = WindowBase + FirstHeader(it)
              /\ Overrun(it')
              /\ FirstHeader(it') = it'.currentPosition)]_vars

\* a frame has been returned and the caller now waits on a partial frame
C5_Witness ==
  /\ pc = "waiting"
  /\ frameCount >= 1
  /\ Overrun(it)
  /\ it.currentPosition = FirstHeader(it)
  /\ ~it.isEnded

(***************************************************************************)
(* C6.  A next() made while an earlier next() is pending is rejected with  *)
(* the concurrency-misuse error and changes nothing: the first call stays  *)
(* pending and the iterator (buffer, cursor, flags, pending slot) is       *)
(* exactly as it was, so the first call and every later call settle as if  *)
(* the second call had never been made.                                    *)
(***************************************************************************)
C6_SecondCallRejected ==
  [][(pc = "waiting" /\ second = NoCall /\ second' # NoCall)
       => (/\ second' = ResError(ConcurrencyError)
           /\ it' = it
           /\ it'.pendingResolve
           /\ pc' = "waiting"
           /\ result' = result)]_vars

\* the first call settled with a frame after the second call was rejected
C6_Witness ==
  /\ second = ResError(ConcurrencyError)
  /\ pc = "settled"
  /\ result.kind = "frame"

(***************************************************************************)
(* C7.  When the source signals an error a pending next() is rejected with *)
(* that error; the error stays recorded, and every next() made afterwards  *)
(* is rejected with the same error, so no frame is returned any more, even *)
(* when complete frames are buffered.                                      *)
(***************************************************************************)
C7_ErrorIsTerminal ==
  [][/\ (srcState = "open" /\ srcState' = "errored" /\ pc = "waiting")
          => (/\ pc' = "settled"
              /\ result'.kind = "error"
              /\ result'.err = it'.streamError
              /\ result'.err \in StreamErrors)
     /\ (srcState = "open" /\ srcState' = "errored")
          => it'.streamError \in StreamErrors
     /\ it.streamError # NoError => it'.streamError = it.streamError
     /\ (it.streamError # NoError /\ CallStep)
          => result' = ResError(it.streamError)
     /\ (it.streamError # NoError /\ result' # result)
          => result' = ResError(it.streamError)]_vars

\* next() was rejected after the error although a complete frame is buffered
C7_Witness ==
  /\ it.streamError # NoError
  /\ frameCount >= 1
  /\ pc = "done"
  /\ extraCalls >= 1
  /\ result = ResError(it.streamError)
  /\ Emittable(it)

(***************************************************************************)
(* C8.  Once the source has ended without error and no complete frame can  *)
(* be emitted from the buffered bytes, next() returns null (it does not    *)
(* fail), whether it was pending when the end came or is made afterwards;  *)
(* and once next() has returned null every later next() returns null.      *)
(***************************************************************************)
C8_NullAfterEnd ==
  [][/\ (/\ CallStep
         /\ it.isEnded
         /\ it.streamError = NoError
         /\ ~Emittable(it))
          => result' = ResNull
     /\ (/\ pc = "waiting"
         /\ srcState = "open"
         /\ srcState' = "ended"
         /\ ~Emittable(it))
          => (pc' = "settled" /\ result' = ResNull)
     /\ result = ResNull => result' = ResNull]_vars

\* null was returned again after the end, with a partial frame still buffered
C8_Witness ==
  /\ srcState = "ended"
  /\ extraCalls >= 1
  /\ result = ResNull
  /\ Overrun(it)

(***************************************************************************)
(* C9.  processFile calls detection, parser lookup, validate and           *)
(* countFrames in that order, each only after the previous one succeeded;  *)
(* the parser is looked up for the detected format; with no parser for it  *)
(* processFile fails with the unsupported-format error carrying that       *)
(* format and calls neither validate nor countFrames; after a failed       *)
(* validate countFrames is not called; a frame count is returned only      *)
(* after validate and countFrames both succeeded.                          *)
(***************************************************************************)
CallOrder == <<"getStreamTee", "detect", "getParser", "validate", "countFrames">>
Called(step) == \E i \in 1..Len(pf.calls) : pf.calls[i] = step

C9_StepsInOrder ==
  /\ [](/\ Len(pf.calls) <= Len(CallOrder)
        /\ pf.calls = SubSeq(CallOrder, 1, Len(pf.calls))
        /\ Called("detect") => "getStreamTee" \in succeeded
        /\ Called("getParser")
             => ("detect" \in succeeded
                 /\ pf.parser = getParser(registry, pf.typeInfo))
        /\ Called("validate") => pf.parser # NoParser
        /\ Called("countFrames") => "validate" \in succeeded
        /\ (Called("getParser") /\ pf.parser = NoParser)
             => (/\ pf.pc = "failed"
                 /\ pf.error = UnsupportedFormatError(pf.typeInfo)
                 /\ ~Called("validate")
                 /\ ~Called("countFrames"))
        /\ pf.pc = "returned"
             => {"validate", "countFrames"} \subseteq succeeded)
  /\ [][/\ (pf.pc = "detect" /\ pf' # pf /\ awaited.kind = "ok")
             => pf'.typeInfo = awaited.typeInfo
        /\ (pf.pc = "validate" /\ pf' # pf /\ awaited.kind = "error")
             => (pf'.pc = "failed" /\ ~Called("countFrames")')
        /\ pf.pc \in {"failed", "returned"} => pf' = pf]_vars

\* a parser is registered, but not for the detected MPEG format: processFile
\* failed with the unsupported-format error for that format
C9_Witness ==
  /\ DOMAIN registry # {}
  /\ pf.pc = "failed"
  /\ pf.typeInfo.version \in {"MPEG-1", "MPEG-2", "MPEG-2.5"}
  /\ pf.error = UnsupportedFormatError(pf.typeInfo)
  /\ pf.calls = SubSeq(CallOrder, 1, 3)

(***************************************************************************)
(* C10.  When detection, validate or countFrames fails, processFile fails  *)
(* with that same failure, makes no further call and returns no frame      *)
(* count; the count it returns is the one countFrames produced, and a      *)
(* failed processFile carries no count.                                    *)
(***************************************************************************)
C10_FailureUnchanged ==
  /\ [][/\ (/\ pf.pc \in {"detect", "validate", "countFrames"}
            /\ awaited.kind = "error"
            /\ pf' # pf)
             => (/\ pf'.pc = "failed"
                 /\ pf'.error = awaited.err
                 /\ pf'.result = NoResult
                 /\ pf'.calls = pf.calls)
        /\ (pf.pc # "returned" /\ pf'.pc = "returned")
             => (/\ pf.pc = "countFrames"
                 /\ awaited.kind = "ok"
                 /\ pf'.result = ProcessingResult(awaited.value)
                 /\ pf'.error = PFNoError)]_vars
  /\ [](pf.pc = "failed" => (pf.result = NoResult /\ pf.error # PFNoError))
  /\ [](pf.pc = "returned" => pf.error = PFNoError)

\* countFrames failed after a successful validate: processFile failed with
\* the no-valid-frames failure
C10_Witness ==
  /\ pf.pc = "failed"
  /\ pf.error = Mp3AnalysisError(NoValidFramesError)
  /\ "validate" \in succeeded
  /\ pf.calls = CallOrder

(***************************************************************************)
(* C11.  On the 842-byte buffer made of header FF FB 90 00 and a 417-byte  *)
(* body, twice: validate returns having accepted 2 frames, countFrames     *)
(* returns 2, and the second counted frame starts after the first.         *)
(***************************************************************************)
C11_TwoFramesAccepted ==
  (Parsed /\ file = TwoFrames)
    => (/\ validation.outcome = Valid
        /\ validation.n = 2
        /\ counting.outcome = Count(2)
        /\ Len(starts) = 2
        /\ starts[2] > starts[1])

\* what the code does on that buffer: countFrames returns 2, with frames at
\* 0 and 421, and validate throws on the second frame
C11_AsBuilt ==
  (Parsed /\ file = TwoFrames)
    => (/\ validation.outcome = Failure(FrameAlignmentError)
        /\ validation.n = 1
        /\ validation.position = 421
        /\ counting.outcome = Count(2)
        /\ starts = <<0, 421>>)

(***************************************************************************)
(* C12.  Whenever validate's loop visits a position that passes the sync   *)
(* and format checks and whose declared frame length runs past the end of  *)
(* the buffer, validate fails with the truncated-frame kind.               *)
(***************************************************************************)
DeclaredLength(buffer, position) ==
  calculateFrameLength(subarray(buffer, position, position + FRAME_HEADER_SIZE))

Overruns(buffer, position) ==
  /\ isFrameSync(buffer, position)
  /\ isFormatSpecificFrame(buffer, position)
  /\ position + DeclaredLength(buffer, position) > Len(buffer)

\* validate's loop is at a position it goes on to look at
Visits(s) ==
  /\ stage = "validate"
  /\ Running(s)
  /\ s.position < Len(file) - getMinFrameSize
  /\ s.n < maxFramesToCheck

C12_OverrunIsTruncated ==
  [][(Visits(validation) /\ Overruns(file, validation.position)
      /\ validation' # validation)
       => validation'.outcome = Failure(TruncatedFrameError)]_vars

\* a frame was accepted and a later one ran past the end
C12_Witness ==
  /\ validation.outcome = Failure(TruncatedFrameError)
  /\ validation.n >= 1
  /\ Overruns(file, validation.position)

(***************************************************************************)
(* C13.  validate and countFrames fail with the empty-input kind on a      *)
(* buffer of length zero and with the too-small kind on a non-empty buffer *)
(* shorter than the minimum frame size; no count is returned and no other  *)
(* failure kind is raised.                                                 *)
(***************************************************************************)
TooSmall(buffer) == Len(buffer) > 0 /\ Len(buffer) < getMinFrameSize

C13_EmptyOrTooSmall ==
  Parsed =>
    /\ Len(file) = 0 => /\ validation.outcome = Failure(EmptyBufferError)
                        /\ counting.outcome = Failure(EmptyBufferError)
    /\ TooSmall(file) => /\ validation.outcome = Failure(FileTooSmallError)
                         /\ counting.outcome = Failure(FileTooSmallError)

\* what the code does: countFrames has no size check, and a buffer of one to
\* three bytes falls through its loop to the no-valid-frames failure
C13_AsBuilt ==
  Parsed =>
    /\ Len(file) = 0 => /\ validation.outcome = Failure(EmptyBufferError)
                        /\ counting.outcome = Failure(EmptyBufferError)
    /\ TooSmall(file) => /\ validation.outcome = Failure(FileTooSmallError)
                         /\ counting.outcome = Failure(NoValidFramesError)

(***************************************************************************)
(* C14.  validate and countFrames fail with the no-valid-frames kind on    *)
(* every buffer that has no position at which the sync pattern matches.    *)
(* As stated this covers the empty and the too-small buffers, which fail   *)
(* with their own kinds; it holds from the minimum frame size on.          *)
(***************************************************************************)
NoSync(buffer) == \A p \in 0..Len(buffer) : ~isFrameSync(buffer, p)

SummaryOnly(buffer) ==
  \E ks \in SegSeqs :
    /\ buffer = StreamBytes(ks)
    /\ \E i \in 1..Len(ks) : ks[i] \in SummaryKinds
    /\ \A i \in 1..Len(ks) : ks[i] \in SummaryKinds \cup TagKinds \cup {"JUNK"}

C15_NeverReturnsZero ==
  /\ counting.outcome.kind = "count" => counting.outcome.count > 0
  /\ (Parsed /\ counting.n = 0)
       => counting.outcome.kind = "error"
  /\ (Parsed /\ SummaryOnly(file))
       => counting.outcome = Failure(NoValidFramesError)

\* countFrames stepped over two summary frames, counted none and failed
C15_Witness ==
  /\ Parsed
  /\ SummaryOnly(file)
  /\ Len(file) > Len(SegBytes("XING"))
  /\ starts = <<>>
  /\ counting = Loop(Len(file), 0, Failure(NoValidFramesError))

(***************************************************************************)
(* C16.  After any sequence of registerParser calls each (version, layer)  *)
(* pair maps to at most one parser, the first one registered for it; a     *)
(* call for a pair that already has a parser fails with the duplicate-     *)
(* registration error and leaves the registry unchanged.                   *)
(***************************************************************************)
\* the registry holds, under each pair's key, the pair's first parser
HoldsFirstParsers ==
  /\ DOMAIN registry = {getKey(k[1], k[2]) : k \in DOMAIN firstFor}
  /\ \A k \in DOMAIN firstFor : registry[getKey(k[1], k[2])] = firstFor[k]

\* a registerParser call for a pair that has a parser already: no request
\* has started and no pair is new
DuplicateCall == pf.pc = "none" /\ pf' = pf /\ firstFor' = firstFor

C16_FirstRegistrationWins ==
  /\ [] HoldsFirstParsers
  /\ [][DuplicateCall
          => (regError' = ParserAlreadyRegisteredError
              /\ registry' = registry)]_vars

\* a second registerParser call for a registered pair has just failed
C16_Witness ==
  /\ regError = ParserAlreadyRegisteredError
  /\ Cardinality(DOMAIN registry) = MaxRegistrations
  /\ HoldsFirstParsers

(***************************************************************************)
(* C17.  getParser never throws: for every format descriptor it returns    *)
(* the parser registered under the descriptor's (version, layer) pair, or  *)
(* null when none is; parsers registered under different pairs never       *)
(* shadow one another.                                                     *)
(***************************************************************************)
\* the parser first registered for the descriptor's pair, if any
RegisteredFor(typeInfo) ==
  IF <<typeInfo.version, typeInfo.layer>> \in DOMAIN firstFor
  THEN firstFor[<<typeInfo.version, typeInfo.layer>>]
  ELSE NoParser

C17_GetParserByPair ==
  \A typeInfo \in TypeInfos :
    /\ getParser(registry, typeInfo) \in ParserNames \cup {NoParser}
    /\ getParser(registry, typeInfo) = RegisteredFor(typeInfo)

\* two pairs with the same version and different layers hold different
\* parsers, and a third descriptor has none
C17_Witness ==
  \E t1, t2, t3 \in TypeInfos :
    /\ t1.version = t2.version
    /\ t1.layer # t2.layer
    /\ getParser(registry, t1) \in ParserNames
    /\ getParser(registry, t2) \in ParserNames
    /\ getParser(registry, t1) # getParser(registry, t2)
    /\ getParser(registry, t3) = NoParser

(***************************************************************************)
(* C18.  For every 4-byte header calculateFrameLength returns 0 exactly    *)
(* when the bitrate index is 0 or 15 or the sample-rate index is 3, and    *)
(* floor(144 * kbps * 1000 / Hz) + padding bit otherwise, which is         *)
(* positive; it is 417 for FF FB 90 00.                                    *)
(***************************************************************************)
\* the header's fields, read off its third byte
BitrateIndexOf(header) == header[3] \div 16
SampleRateIndexOf(header) == (header[3] \div 4) % 4
PaddingBitOf(header) == (header[3] \div 2) % 2
\* MPEG-1 Layer 3 bitrates for indices 1..14 and sample rates for 0..2
Kbps(bitrateIndex) ==
  <<32, 40, 48, 56, 64, 80, 96, 112, 128, 160, 192, 224, 256, 320>>[bitrateIndex]
Hz(sampleRateIndex) == <<44100, 48000, 32000>>[sampleRateIndex + 1]

ExpectedLength(header) ==
  IF BitrateIndexOf(header) \in {0, 15} \/ SampleRateIndexOf(header) = 3
  THEN 0
  ELSE ((144 * Kbps(BitrateIndexOf(header)) * 1000)
          \div Hz(SampleRateIndexOf(header))) + PaddingBitOf(header)

\* the codec was asked about the whole of a 4-byte buffer
HeaderProbed ==
  stage = "probed" /\ probe.position = 0 /\ Len(file) = FRAME_HEADER_SIZE

C18_FrameLength ==
  HeaderProbed =>
    /\ probe.length = ExpectedLength(file)
    /\ probe.length = 0 <=> (\/ BitrateIndexOf(file) \in {0, 15}
                             \/ SampleRateIndexOf(file) = 3)
    /\ probe.length >= 0
    /\ file = <<255, 251, 144, 0>> => probe.length = 417

\* a padded frame: 320 kbps at 32 kHz with the padding bit set, 1441 bytes
C18_Witness ==
  /\ HeaderProbed
  /\ BitrateIndexOf(file) = 14
  /\ SampleRateIndexOf(file) = 2
  /\ PaddingBitOf(file) = 1
  /\ probe.length = 1441

(***************************************************************************)
(* C19.  isFormatSpecificFrame(buffer, pos) returns true if and only if 4  *)
(* bytes are available at pos, the version field is MPEG-1, the layer      *)
(* field is Layer 3, the bitrate index is neither 0 nor 15, the sample-    *)
(* rate index is not 3 and the emphasis field is not 2.  As stated the     *)
(* claim also requires the bytes to pass the sync check, which the         *)
(* function leaves to its callers.                                         *)
(***************************************************************************)
\* the byte at a 0-based offset that lies inside the buffer
ByteAt(buffer, offset) == buffer[offset + 1]

FieldsAccepted(buffer, pos) ==
  /\ pos + 4 <= Len(buffer)
  /\ (ByteAt(buffer, pos + 1) \div 8) % 4 = 3
  /\ (ByteAt(buffer, pos + 1) \div 2) % 4 = 1
  /\ ByteAt(buffer, pos + 2) \div 16 \notin {0, 15}
  /\ (ByteAt(buffer, pos + 2) \div 4) % 4 # 3
  /\ ByteAt(buffer, pos + 3) % 4 # 2

SyncBytes(buffer, pos) ==
  /\ pos + 2 <= Len(buffer)
  /\ ByteAt(buffer, pos) = 255
  /\ ByteAt(buffer, pos + 1) >= 224

C19_Original ==
  stage = "probed"
    => (probe.member <=> (/\ FieldsAccepted(file, probe.position)
                          /\ SyncBytes(file, probe.position)))

C19_FormatMember ==
  stage = "probed"
    => /\ probe.member <=> FieldsAccepted(file, probe.position)
       /\ probe.sync <=> SyncBytes(file, probe.position)

\* a header without the sync pattern whose fields are all acceptable
C19_Witness ==
  /\ stage = "probed"
  /\ probe.member
  /\ ~probe.sync
  /\ FieldsAccepted(file, probe.position)

(***************************************************************************)
(* C20.  parseFrameHeader(buffer, pos) fails with the corrupted-header     *)
(* error exactly when fewer than 4 bytes are available at pos or           *)
(* calculateFrameLength of those 4 bytes is 0; otherwise it returns the    *)
(* same positive value as calculateFrameLength.                            *)
(***************************************************************************)
FewerThanFour(buffer, pos) == Len(buffer) - pos < 4

C20_ParseFrameHeader ==
  stage = "probed" =>
    IF FewerThanFour(file, probe.position) \/ probe.length = 0
    THEN probe.parsed.thrown = CorruptedFrameHeaderError
    ELSE /\ probe.parsed.thrown = NoError
         /\ probe.parsed.value = probe.length
         /\ probe.parsed.value > 0

\* four bytes were available and their bitrate index is 0: the zero length
\* surfaced as the corrupted-header error
C20_Witness ==
  /\ stage = "probed"
  /\ ~FewerThanFour(file, probe.position)
  /\ probe.length = 0
  /\ probe.parsed.thrown = CorruptedFrameHeaderError

(***************************************************************************)
(* C21.  The tag skipper returns 10 + S when the buffer has at least 10    *)
(* bytes, starts with the tag magic and 10 + S does not exceed the buffer  *)
(* length, S being the 28-bit value formed from the low 7 bits of each of  *)
(* bytes 6 to 9, big-endian; in every other case it returns 0.             *)
(***************************************************************************)
Low7(byte) == byte % 128

SynchsafeSize(buffer) ==
  Low7(ByteAt(buffer, 6)) * 2097152 + Low7(ByteAt(buffer, 7)) * 16384
  + Low7(ByteAt(buffer, 8)) * 128 + Low7(ByteAt(buffer, 9))

HasTagMagic(buffer) ==
  /\ ByteAt(buffer, 0) = 73
  /\ ByteAt(buffer, 1) = 68
  /\ ByteAt(buffer, 2) = 51

ExpectedTagEnd(buffer) ==
  IF Len(buffer) >= 10 /\ HasTagMagic(buffer)
     /\ 10 + SynchsafeSize(buffer) <= Len(buffer)
  THEN 10 + SynchsafeSize(buffer)
  ELSE 0

C21_TagEnd == stage = "probed" => probe.tagEnd = ExpectedTagEnd(file)

\* what the code does: the four size bytes are shifted and or-ed whole, so
\* the result is the stated one when no size byte has its high bit set
HighBitFree(buffer) ==
  Len(buffer) >= 10 => \A i \in 6..9 : ByteAt(buffer, i) < 128

C21_AsBuilt ==
  (stage = "probed" /\ HighBitFree(file))
    => probe.tagEnd = ExpectedTagEnd(file)

(***************************************************************************)
(* C22.  The detector returns the version and layer decoded from the first *)
(* position, after any leading tag, at which the sync pattern matches,     *)
(* whenever the examined bytes have such a position; it returns            *)
(* Unknown/Unknown with a diagnostic label when the stream is empty, has   *)
(* fewer than 4 bytes, or has no sync pattern.                             *)
(***************************************************************************)
\* the bytes detectTypeFromStream had gathered when it resolved
Examined == detector.chunks
Detected == detector.promise.kind = "ok"

SyncFrom(buffer, from) ==
  {p \in from..(Len(buffer) - 2) : SyncBytes(buffer, p)}
VersionAt(buffer, p) ==
  <<"MPEG-2.5", "Unknown", "MPEG-2", "MPEG-1">>[((ByteAt(buffer, p + 1) \div 8) % 4) + 1]
LayerAt(buffer, p) ==
  <<"Unknown", "Layer 3", "Layer 2", "Layer 1">>[((ByteAt(buffer, p + 1) \div 2) % 4) + 1]

IsUnknown(typeInfo) ==
  /\ typeInfo.version = "Unknown"
  /\ typeInfo.layer = "Unknown"
  /\ Len(typeInfo.description) = 1

DecodedAt(typeInfo, buffer, p) ==
  /\ typeInfo.version = VersionAt(buffer, p)
  /\ typeInfo.layer = LayerAt(buffer, p)

C22_FirstSyncDecides ==
  Detected =>
    IF Len(Examined) < 4 \/ SyncFrom(Examined, ExpectedTagEnd(Examined)) = {}
    THEN IsUnknown(detector.promise.typeInfo)
    ELSE DecodedAt(detector.promise.typeInfo, Examined,
                   Lowest(SyncFrom(Examined, ExpectedTagEnd(Examined))))

\* what the code does: the search stops 4 bytes before the end of the
\* examined bytes, so a sync pattern in the last 4 bytes is not seen
SearchedFrom(buffer, from) ==
  {p \in SyncFrom(buffer, from) : p < Len(buffer) - 4}

C22_AsBuilt ==
  Detected =>
    IF Len(Examined) < 4 \/ SearchedFrom(Examined, ExpectedTagEnd(Examined)) = {}
    THEN IsUnknown(detector.promise.typeInfo)
    ELSE DecodedAt(detector.promise.typeInfo, Examined,
                   Lowest(SearchedFrom(Examined, ExpectedTagEnd(Examined))))

(***************************************************************************)
(* C23.  Requests are independent: with the handlers of two requests       *)
(* interleaved in any order each request gets the result it gets alone,    *)
(* and processing the same stored bytes again gives the same frame count.  *)
(***************************************************************************)
BothDone == pc = "done" /\ other.pc = "done"

C23_SameBytesSameCount ==
  (BothDone /\ segs = other.segs) => outcome = other.outcome

\* what the code does: a request never touches the other request's state,
\* and both get the count of a run alone unless the stream is a tag whose
\* body looks like a frame, where the count follows the chunking
C23_AsBuilt ==
  (BothDone /\ segs # <<"TAGF">> /\ other.segs # <<"TAGF">>)
    => /\ outcome = SingleChunkOutcome(StreamBytes(segs))
       /\ other.outcome = SingleChunkOutcome(StreamBytes(other.segs))

(***************************************************************************)
(* C24.  Of any two frames next() returns one after the other on the same  *)
(* iterator, the later one reports a greater position than the earlier.    *)
(***************************************************************************)
C24_PositionsIncrease ==
  \A i \in 1..(Len(reported) - 1) : reported[i + 1] > reported[i]

\* what the code does: a position is an offset into the buffer the frame
\* is returned with, and that buffer is cut at its front between frames;
\* the positions increase when the whole stream arrives before the first
\* next() has to wait
C24_AsBuilt ==
  [][(reported' # reported /\ Len(result.buffer) = Len(StreamBytes(segs)))
       => (\A i \in 1..(Len(reported') - 1) : reported'[i + 1] > reported'[i])]_vars

RECURSIVE Joined(_)
Joined(chunks) ==
  IF chunks = <<>> THEN <<>> ELSE Head(chunks) \o Joined(Tail(chunks))
StartsWith(whole, part) ==
  Len(part) <= Len(whole) /\ SubSeq(whole, 1, Len(part)) = part
Carries(i) == streams[i].created # "after error"

\* C25: a stream returned by getStream, whenever it was requested, hands its
\* reader a prefix of the source's bytes in order, holds queued exactly the
\* rest of what the source has emitted so far as long as it is not destroyed,
\* and reaches "end" only with the source's complete byte sequence received,
\* whatever the readers of the other streams do.
C25_BranchCarriesSource ==
  \A i \in 1..Len(streams) :
    Carries(i) =>
      /\ StartsWith(teeSource.all, streams[i].got)
      /\ ~streams[i].destroyed =>
           streams[i].got \o Joined(streams[i].queue) = Joined(tee.chunks)
      /\ streams[i].ended => streams[i].got = teeSource.all
\* a stream requested between two chunks still untouched by its reader while
\* one requested after the end has delivered all three bytes and "end"
C25_Witness ==
  /\ Len(streams) = 2
  /\ streams[1].created = "between chunks"
  /\ streams[1].got = <<>>
  /\ ~streams[1].destroyed
  /\ streams[2].created = "after end"
  /\ streams[2].ended
  /\ streams[2].got = <<11, 12, 13>>

\* C26: in the step where the source emits an error every stream then in the
\* branches array and not destroyed fails with that error; from then on a
\* newly requested stream is one that is destroyed with that error when its
\* callback runs, and no stream reaches "end".
C26_ErrorReachesEveryBranch ==
  [][teeSource'.state = "errored" =>
       \A i \in 1..Len(streams') :
         /\ i <= Len(streams) => streams'[i].ended = streams[i].ended
         /\ (teeSource.state = "open" /\ i \in tee.branches
               /\ ~streams[i].destroyed)
              => streams'[i].failed = teeSource'.error
         /\ i > Len(streams) => streams'[i].immediate = "destroy"
         /\ (i <= Len(streams) /\ streams[i].immediate = "destroy"
               /\ streams'[i].immediate = "none" /\ ~streams[i].destroyed)
              => streams'[i].failed = teeSource.error]_vars
\* one stream requested before the error and one after it, both failed with it
C26_Witness ==
  /\ teeSource.state = "errored"
  /\ teeSource.error = "ECONNRESET"
  /\ Len(streams) = 2
  /\ streams[1].created = "between chunks"
  /\ streams[1].failed = "ECONNRESET"
  /\ streams[2].created = "after error"
  /\ streams[2].failed = "ECONNRESET"

\* what the endpoint is to answer to a failure
Answer(failure) ==
  IF failure.family = "UnsupportedFormatError"
  THEN [status |-> 400, code |-> "UNSUPPORTED_FORMAT"]
  ELSE IF failure.family = "UploadValidationError"
  THEN [status |-> 400, code |-> "FILE_REQUIRED"]
  ELSE IF failure.family = "Mp3AnalysisError"
  THEN [status |-> 400, code |-> "INVALID_FORMAT"]
  ELSE IF failure.code = "UPLOAD_ERROR"
  THEN [status |-> 500, code |-> "STORAGE_UPLOAD_ERROR"]
  ELSE [status |-> 500, code |-> "STORAGE_READ_ERROR"]
Failed == request.stage = "done" /\ request.failure.family # "none"

\* C27: a request that failed is answered once, with the status and code of
\* its failure's kind (unsupported format, upload validation, MP3 analysis,
\* storage upload, other storage), and any other error is passed on as it is.
C27_FailureToResponse ==
  Failed =>
    IF request.failure.family = "Error"
    THEN request.response = Rethrown(request.failure)
    ELSE /\ request.response.kind = "exception"
         /\ request.response.status = Answer(request.failure).status
         /\ request.response.code = Answer(request.failure).code
\* the upload was rejected by the store with UPLOAD_ERROR
C27_Witness ==
  /\ Failed
  /\ request.failure = Raised("FileStorageError", "UPLOAD_ERROR")
  /\ request.response = InternalServerErrorException("STORAGE_UPLOAD_ERROR")

(***************************************************************************)
(* C28.  The leading-tag skip.                                             *)
(***************************************************************************)
\* bytes the source has delivered, and how many of them the buffer has lost
Received == Len(StreamBytes(segs)) - Len(source)
Dropped == Received - Len(it.buffer)
\* the length of the tag the stream starts with, 0 without one
TagLength == ExpectedTagEnd(StreamBytes(segs))
SkipApplied == ~it.id3v2Skipped /\ it'.id3v2Skipped

\* C28: the skip is applied once, in a step that leaves at least 10 bytes
\* received; when the stream starts with a tag that step removes exactly the
\* tag's bytes from the front (a trim after it may remove more and then
\* leaves the cursor at the window size); once applied it stays applied and
\* only trimming removes bytes from the front.
C28_TagSkippedOnce ==
  [][/\ SkipApplied =>
          /\ Received' >= ID3V2_HEADER_SIZE
          /\ TagLength > 0 =>
               \/ Dropped' = TagLength
               \/ Dropped' > TagLength /\ it'.currentPosition = windowSize
     /\ it.id3v2Skipped =>
          /\ it'.id3v2Skipped
          /\ Dropped' # Dropped => it'.currentPosition = windowSize]_vars

\* what the code does: the tag is removed only if all of it is buffered when
\* the check is made, which is the first time 10 bytes are buffered
C28_AsBuilt ==
  [][/\ SkipApplied =>
          /\ Received' >= ID3V2_HEADER_SIZE
          /\ ExpectedTagEnd(SubSeq(StreamBytes(segs), 1, Received')) > 0 =>
               \/ Dropped' = TagLength
               \/ Dropped' > TagLength /\ it'.currentPosition = windowSize
          /\ ExpectedTagEnd(SubSeq(StreamBytes(segs), 1, Received')) = 0 =>
               \/ Dropped' = 0
               \/ it'.currentPosition = windowSize
     /\ it.id3v2Skipped =>
          /\ it'.id3v2Skipped
          /\ Dropped' # Dropped => it'.currentPosition = windowSize]_vars

(***************************************************************************)
(* C29.  The size of the iterator's buffer.                                *)
(***************************************************************************)
Largest(S) == CHOOSE x \in S : \A y \in S : y <= x
\* the longest frame a header can declare
MaximalFrame ==
  Largest({calculateFrameLength(<<SYNC_BYTE, 251, b, 0>>) : b \in 0..255})
\* one chunk, one maximal frame and the lookback window
BufferBound == ChunkBig + MaximalFrame + windowSize

\* C29: with chunks of at most ChunkBig bytes, whatever the stream's length
\* and whenever the consumer calls next(), the buffer never holds more than
\* one chunk plus one maximal frame plus the lookback window.
C29_BufferBounded == Len(it.buffer) <= BufferBound

\* what the code does: the buffer is cut only behind the cursor, and the
\* cursor moves only in findNextFrame; while the consumer has no call pending
\* every chunk is added to the bytes held from the cursor on, up to the whole
\* stream
C29_AsBuilt ==
  [][(pc = "idle" /\ it'.buffer # it.buffer)
       => Len(it'.buffer) - it'.currentPosition
            = Len(it.buffer) - it.currentPosition
              + (Len(source) - Len(source'))]_vars

(***************************************************************************)
(* C30.  Taking chunks from the source.                                    *)
(***************************************************************************)
\* a complete frame is buffered from the cursor on and has not been returned
HoldsUnreturnedFrame == findNextFrame(it).frame.kind = "frame"
Resumed == pc' # "new" => srcState' # "paused"

\* C30: while the iterator holds a complete frame it has not returned it takes
\* no further chunk from its source, and once it is constructed its source is
\* not paused.
C30_TakesNoChunkWhileHolding ==
  [][(HoldsUnreturnedFrame => source' = source) /\ Resumed]_vars

\* what the code does: the source is resumed and left flowing, and a chunk is
\* taken whatever the buffer holds, the frame held staying the next returned
C30_AsBuilt ==
  [][/\ Resumed
     /\ (HoldsUnreturnedFrame /\ source' # source)
          => /\ Len(it'.buffer) - it'.currentPosition
                  > Len(it.buffer) - it.currentPosition
             /\ findNextFrame(it').frame.kind = "frame"]_vars

(***************************************************************************)
(* C31.  Termination.                                                      *)
(***************************************************************************)
\* C31: with a source that goes on to signal end or error, a next() call
\* left waiting is eventually settled, and countFrames eventually finishes
\* with a count or a failure.
C31_NextSettles ==
  /\ (pc = "waiting") ~> (pc # "waiting")
  /\ <>(outcome # NoOutcome)
\* a call was left waiting at the end of the data, the end event resolved it
\* with null and countFrames finished with the two frames it had counted
C31_Witness ==
  /\ segs = <<"TAG", "F97", "F96">>
  /\ srcState = "ended"
  /\ result = ResNull
  /\ outcome = Count(2)

(***************************************************************************)
(* C32.  The pending slot.                                                 *)
(***************************************************************************)
SlotHeld == it.pendingResolve
\* the slot holds the caller's waiting call and nothing else
HeldProperly ==
  /\ SlotHeld <=> pc = "waiting"
  /\ SlotHeld <=> it.pendingReject
  /\ second.kind # "pending"
  /\ SlotHeld =>
       /\ ~it.isEnded
       /\ it.streamError = NoError
       /\ srcState = "open"
       /\ findNextFrame(it).frame.kind # "frame"

\* C32: the slot holds at most the one waiting call (a second call is never
\* left waiting); while it is held the source has neither ended nor failed
\* and no complete frame can be found from the cursor; the step that settles
\* the waiting call empties the slot, and a settled result is not settled
\* again.
C32_OneWaiter ==
  /\ []HeldProperly
  /\ [][/\ ((pc = "waiting" /\ pc' # "waiting")
              => (~it'.pendingResolve /\ result'.kind # "pending"))
         /\ ((pc = "settled" /\ pc' = "settled") => result' = result)]_vars
\* a call is waiting on buffered bytes that hold no complete frame, and a
\* second call has been rejected
C32_Witness ==
  /\ SlotHeld
  /\ it.buffer # <<>>
  /\ second = ResError(ConcurrencyError)

(***************************************************************************)
(* C33.  validate examines at most 10 frames: its counter never passes     *)
(* maxFramesToCheck, and once 10 frames have passed its checks the next    *)
(* evaluation of the loop condition returns success with the position      *)
(* where the tenth frame ended, no later byte having been looked at.       *)
(* Hence the outcome is the same for every input that agrees with the      *)
(* buffer up to the end of the tenth frame and the bytes the tenth         *)
(* frame's alignment check reads (offsets 0..4 and the byte after each).   *)
(***************************************************************************)
LookAhead == alignmentTolerance + 2
Tails ==
  {<<>>, <<0>>, <<255, 251, 20>>, Zeros(FRAME_HEADER_SIZE), SegBytes("TRUNC"),
   SegBytes("F96"), SegBytes("JUNK")}
TenAccepted == stage = "validate" /\ validation.n = maxFramesToCheck

C33_AtMostTenFrames ==
  /\ [](/\ validation.n <= maxFramesToCheck
        /\ TenAccepted =>
             /\ validation.outcome \in {NoOutcome, Valid}
             /\ Len(file) >= validation.position + LookAhead =>
                  \A t \in Tails :
                    validate(Prefix(file, validation.position + LookAhead) \o t)
                      = Valid)
  /\ [][(TenAccepted /\ Running(validation))
          => validation' = [validation EXCEPT !.outcome = Valid]]_vars

\* validate returned after ten frames of a buffer that goes on with an
\* eleventh frame and a frame cut short
C33_Witness ==
  /\ file = Repeat("F96", MaxRepeat) \o SegBytes("TRUNC")
  /\ TenAccepted
  /\ validation.outcome = Valid
  /\ validation.position + LookAhead <= Len(file)
  /\ validate(Prefix(file, validation.position + LookAhead)) = Valid

(***************************************************************************)
(* C34.  When validate visits a frame that is no summary frame and whose   *)
(* computed end lies inside the buffer, it fails with the frame-alignment  *)
(* kind exactly when no sync pattern starts at any of the offsets 0..4     *)
(* from that end and a frame was accepted before; validate fails with      *)
(* that kind nowhere else, so never on the first frame it validates.       *)
(***************************************************************************)
SyncAt(i) == At(file, i) = 255 /\ At(file, i + 1) \in 224..255

\* validate's loop is at a frame whose alignment it checks
AlignmentChecked(s) ==
  /\ Visits(s)
  /\ isFrameSync(file, s.position)
  /\ isFormatSpecificFrame(file, s.position)
  /\ DeclaredLength(file, s.position) > 0
  /\ s.position + DeclaredLength(file, s.position) < Len(file)
  /\ ~isHeaderFrame(file, s.position)

NoSyncAfter(s) ==
  \A offset \in 0..4 :
    ~SyncAt(s.position + DeclaredLength(file, s.position) + offset)

C34_AlignmentFailure ==
  [][validation' # validation
       => /\ AlignmentChecked(validation)
               => (validation'.outcome = Failure(FrameAlignmentError)
                     <=> (NoSyncAfter(validation) /\ validation.n > 0))
          /\ validation'.outcome = Failure(FrameAlignmentError)
               => (AlignmentChecked(validation) /\ validation.n > 0)]_vars

\* two frames, five zero bytes and a third frame: the second frame failed
\* the alignment check, the first one having passed with a frame behind it
C34_Witness ==
  /\ file = Repeat("F96", 2) \o Zeros(5) \o SegBytes("F96")
  /\ validation.outcome = Failure(FrameAlignmentError)
  /\ validation.n = 1
  /\ validation.position = Len(SegBytes("F96"))
  /\ ~isHeaderFrame(file, validation.position)
  /\ NoSyncAfter(validation)

(***************************************************************************)
(* C35.  CompleteMultipartUpload is sent only when no part of the upload   *)
(* is queued or in flight, and the part list it carries is 1, 2, ..., up   *)
(* to the number of parts the stream's bytes make, whatever the order of   *)
(* chunks, UploadPart responses and the stream's end.                      *)
(***************************************************************************)
RECURSIVE Total(_)
Total(lengths) ==
  IF lengths = <<>> THEN 0 ELSE Head(lengths) + Total(Tail(lengths))
CompleteSent == multipart.final \in {"complete", "done"}
\* the parts the stream's bytes make, in ascending order
AllParts ==
  [i \in 1..((Total(multipart.all) + partSize - 1) \div partSize) |-> i]

C35_CompleteAfterAllParts ==
  CompleteSent
    => /\ multipart.unfinished = {}
       /\ multipart.completedWith = AllParts

\* what the code does: the upload is completed with the parts pushed by
\* then, the final part last; the list is whole and ascending if the queue's
\* runner was idle when the stream ended
C35_AsBuilt ==
  /\ CompleteSent
       => /\ multipart.stream = "ended"
          /\ multipart.buffer > 0
               => /\ multipart.completedWith # <<>>
                  /\ multipart.completedWith[Len(multipart.completedWith)]
                       = multipart.partNumber
          /\ ~multipart.busyAtEnd => multipart.completedWith = AllParts
  /\ multipart.promise = "resolved" => multipart.final = "done"

\* one chunk of a part's length, the stream's end before the part's
\* UploadPart was answered: the upload was completed with an empty list
C35_Race ==
  /\ multipart.completedWith = <<>>
  /\ multipart.unfinished = {1}
  /\ multipart.promise = "resolved"
  /\ multipart.parts = <<1>>

(***************************************************************************)
(* C36.  hasNext() is true as long as the source has neither ended nor     *)
(* failed, and false once it has failed; in every state where hasNext()    *)
(* is false, a next() made there settles at once with null or with the     *)
(* stream's error, never with a frame.                                     *)
(***************************************************************************)
C36_HasNext ==
  /\ srcState = "open" => hasNext(it)
  /\ (~it.isEnded /\ it.streamError = NoError) => hasNext(it)
  /\ srcState = "errored" => ~hasNext(it)
  /\ ~hasNext(it) => next(it).res.kind \in {"null", "error"}

\* the stream ended leaving bytes that hold no frame: hasNext() is false and
\* the caller's next() returned null
C36_Witness ==
  /\ srcState = "ended"
  /\ it.buffer # <<>>
  /\ ~hasNext(it)
  /\ result = ResNull
  /\ next(it).res = ResNull

(***************************************************************************)
(* C37.  Counting frames by walking an iterator over a stream of some      *)
(* bytes, however they are chunked, gives what countFrames gives on a      *)
(* buffer of the same bytes: the same count, or a failure where it fails.  *)
(***************************************************************************)
SameResult(a, b) == a.kind = b.kind /\ a.count = b.count

\* the walk has finished on a stream that delivered every byte and ended
Walked == outcome # NoOutcome /\ srcState = "ended"

C37_IteratorCountsAsBuffer ==
  Walked => SameResult(outcome, countFrames(StreamBytes(segs)))

\* what the code does: the two counts agree on every stream without a tag
C37_AsBuilt ==
  (Walked /\ \A i \in 1..Len(segs) : segs[i] \notin TagKinds)
    => SameResult(outcome, countFrames(StreamBytes(segs)))

(***************************************************************************)
(* C38.  The frames one iterator returns lie one after the other in the    *)
(* stream.  With the cursor taken as an offset into the stream (the bytes  *)
(* the buffer has lost at its front plus currentPosition): the cursor      *)
(* never moves back; a returned frame starts at or after the cursor, which *)
(* the previous frame left at its end, carries the stream's bytes of that  *)
(* range, has a positive length and leaves the cursor at its own end; and  *)
(* once the tag check is done, a step in which no next() is made or        *)
(* waiting, so that only trimming can cut the buffer, leaves the cursor    *)
(* where it is in the stream and removes only bytes before it.             *)
(***************************************************************************)
AbsCursor == Dropped + it.currentPosition
FrameReturned ==
  pc # "settled" /\ pc' = "settled" /\ result'.kind = "frame"
\* the stream's bytes from offset from (counted from 0) up to offset to
StreamRange(from, to) == SubSeq(StreamBytes(segs), from + 1, to)

C38_FramesInStreamOrder ==
  [][/\ AbsCursor' >= AbsCursor
     /\ FrameReturned =>
          /\ Dropped' + result'.position >= AbsCursor
          /\ result'.length > 0
          /\ AbsCursor' = Dropped' + result'.position + result'.length
          /\ AbsCursor' <= Received'
          /\ subarray(result'.buffer, result'.position,
                      result'.position + result'.length)
               = StreamRange(Dropped' + result'.position, AbsCursor')
     /\ (it.id3v2Skipped /\ pc \in {"idle", "settled"} /\ pc' = pc)
          => /\ AbsCursor' = AbsCursor
             /\ Dropped' <= AbsCursor]_vars

\* a second frame was returned from a buffer trimmed since the first: its
\* position in the buffer is that of the first, its place in the stream is
\* not
C38_Witness ==
  /\ Len(reported) = 1
  /\ pc = "settled"
  /\ result.kind = "frame"
  /\ result.position = reported[1]
  /\ Dropped > 0
  /\ AbsCursor = Dropped + result.position + result.length

(***************************************************************************)
(* C39.  Wherever isFormatSpecificFrame accepts the 4 bytes at a position, *)
(* calculateFrameLength of those bytes is at least the minimum frame size, *)
(* hence positive, and parseFrameHeader returns it without throwing.       *)
(***************************************************************************)
C39_AcceptedHeaderHasLength ==
  (stage = "probed" /\ probe.member)
    => /\ probe.length >= getMinFrameSize
       /\ probe.length > 0
       /\ probe.parsed = Returned(probe.length)

\* the shortest frame of the format: 32 kbps at 48 kHz without padding
C39_Witness ==
  /\ stage = "probed"
  /\ file = <<255, 251, 20, 0>>
  /\ probe.position = 0
  /\ probe.member
  /\ probe.length = 96

====
